---- MODULE Spec2Model ----
(***************************************************************************)
(* Model of the network protocol core of alfred: src/recv.c (inbound       *)
(* datagrams, transaction reassembly, merge into the dataset store) and    *)
(* src/send.c (announce, push scheduler, sync, socket teardown).           *)
(*                                                                         *)
(* Conventions                                                             *)
(*  - A 16-bit field of a datagram holds the value the host reads from the *)
(*    wire before ntohs (little-endian host), so htons/ntohs swap bytes.   *)
(*  - A byte buffer is represented by a content identifier; its size is    *)
(*    carried by the length field next to it.  Two buffers of the same     *)
(*    size are bytewise equal iff their identifiers are equal.             *)
(*  - Hash tables are functions whose DOMAIN is the set of stored keys.    *)
(***************************************************************************)
EXTENDS Integers, Sequences, FiniteSets, TLC

VARIABLES
  opmode,            \* globals->opmode
  ipv4mode,          \* globals->ipv4mode: the transport is IPv4 (TRUE) or IPv6
  now,               \* CLOCK_MONOTONIC
  data_hash,         \* globals->data_hash: <<type, source>> -> dataset
  transaction_hash,  \* globals->transaction_hash: <<server_addr, id>> -> head
  interfaces,        \* globals->interfaces: name -> [netsock, netsock_mcast, server_hash]
  best_server,       \* globals->best_server (hwaddr and address, or NoServer)
  path,              \* observation: the return path the last operation took
  merge_log,         \* observation: records run through the merge by the last operation
  finish_hook,       \* observation: heads handed to unix_sock_req_data_finish by the last operation
  push_log,          \* observation: push_data calls of the last operation and what each handed to send_alfred_packet
  sent,              \* observation: datagrams the last operation handed to sendto that left the host
  completed_tx       \* history: keys of completed transactions not opened again since

vars == <<opmode, ipv4mode, now, data_hash, transaction_hash, interfaces, best_server,
          path, merge_log, finish_hook, push_log, sent, completed_tx>>

(***************************************************************************)
(* Program constants (packet.h / alfred.h, described in spec.md 3, 4.1, 6) *)
(***************************************************************************)
ALFRED_VERSION == 0
ALFRED_PUSH_DATA == 0
ALFRED_ANNOUNCE_MASTER == 1
ALFRED_REQUEST == 2
ALFRED_STATUS_TXEND == 3
SOURCE_LOCAL == 0
SOURCE_FIRST_HAND == 1
SOURCE_SYNCED == 2
NO_FILTER == -1
MAX_PAYLOAD == 65527
\* sizeof(struct alfred_tlv): type, version, length
SizeofTlv == 4
\* sizeof(struct alfred_push_data_v0): tlv header + tx_id + seqno
SizeofPush == 8
\* sizeof(struct alfred_data): source[6] + tlv header
SizeofData == 10
\* sizeof(struct alfred_status_v0): tlv header + tx_id + seqno
SizeofStatus == 8
\* sizeof(struct alfred_request_v0): tlv header + requested_type + tx_id
SizeofRequest == 7
\* sizeof(struct alfred_announce_master_v0): tlv header only
SizeofAnnounce == 4

NULL == "NULL"
NoMac == "none"
\* globals->best_server when no server has been chosen
\* no allocation of the operation fails
NoFailure == [site |-> "none", record |-> 0]

NoServer == [hwaddr |-> "none", address |-> "none"]

(***************************************************************************)
(* Bounds of the model                                                     *)
(***************************************************************************)
\* the monotonic clock runs from 0 to MaxTime
MaxTime == 1
\* at most MaxTrans transaction heads are alive at once
MaxTrans == 2

(***************************************************************************)
(* Byte order: htons/ntohs on a little-endian host swap the two bytes      *)
(***************************************************************************)
htons(x) == (x % 256) * 256 + (x \div 256)

ntohs(x) == (x % 256) * 256 + (x \div 256)

\* What a call with undefined behaviour does in a build: the process is
\* killed, or the call returns and the bytes it read from the invalid buffer
\* compare equal to or different from the valid ones.  An optimising build
\* also takes the call as proof that the buffer is not NULL and drops the
\* test of recv.c:83 behind it ("_unguarded").
UndefinedOutcomes ==
  {"SIGSEGV", "equal", "differ", "equal_unguarded", "differ_unguarded"}

\* the outcomes after which the code behind the call runs as if the buffer
\* were not NULL
Unguarded == {"equal_unguarded", "differ_unguarded"}

\* the bytes a copy out of an invalid buffer delivers when it returns
Garbage == "?"

\* One operation can make several undefined calls.  ub is the sequence of
\* what they do for as long as they return; the call that finds the sequence
\* used up kills the process.
MaxUndefined == 2

UndefinedRuns(n) ==
  UNION {[1..k -> UndefinedOutcomes \ {"SIGSEGV"}] : k \in 0..n}

Outcome(ub) == IF ub = <<>> THEN "SIGSEGV" ELSE Head(ub)

Used(ub) == IF ub = <<>> THEN ub ELSE Tail(ub)

\* memcmp(a, b, n) over buffers given by content identifiers: ret is zero
\* iff the first n bytes compare equal.  With a = NULL and n > 0 the call is
\* undefined: ub is what it does, and fault says that it killed the process.
memcmp(a, b, n, ub) ==
  IF a = NULL /\ n > 0
  THEN [fault |-> ub = "SIGSEGV",
        ret |-> IF ub \in {"equal", "equal_unguarded"} THEN 0 ELSE 1]
  ELSE [fault |-> FALSE, ret |-> IF n = 0 \/ a = b THEN 0 ELSE 1]

\* the elements of a sequence
Range(s) == {s[i] : i \in DOMAIN s}

\* hash_add / overwrite of one bucket
Put(h, k, v) == [x \in DOMAIN h \cup {k} |-> IF x = k THEN v ELSE h[x]]

\* hash_remove
Remove(h, k) == [x \in DOMAIN h \ {k} |-> h[x]]

(***************************************************************************)
(* Merge engine: finish_alfred_push_data                                   *)
(***************************************************************************)
\* the while loop's walk over the body: the records it accepts, given the
\* bytes left (len) and the records laid out in the body
RECURSIVE ParseRecords(_, _)
ParseRecords(recs, len) ==
  IF recs = <<>> \/ len < SizeofData THEN <<>>
  ELSE LET data == Head(recs)
           data_len == ntohs(data.length)
       IN IF data_len + SizeofData > len THEN <<>>
          ELSE <<data>> \o ParseRecords(Tail(recs), len - (SizeofData + data_len))

\* st.alloc names the allocation of the operation that fails: site "dataset"
\* (malloc of the entry, or hash_add) or "buf" (malloc of the payload) while
\* the record-th record of the operation is merged; st.err is set from the
\* failure to the end of the fragment
AllocFails(st, site) ==
  st.alloc.site = site /\ st.alloc.record = Len(st.log) + 1

\* mutant: the sender is not compared with the source of the dataset
MergeRecord_NeverFirstHand(st, mac, data, t) ==
  LET key == <<data.type, data.source>>
      data_len == ntohs(data.length)
      new_entry_created == key \notin DOMAIN st.data_hash
      dataset == IF new_entry_created
                 THEN [buf |-> NULL, data_source |-> SOURCE_SYNCED,
                       version |-> data.version, length |-> data.length,
                       last_seen |-> 0]
                 ELSE st.data_hash[key]
      undefined == ~new_entry_created /\ dataset.length = data_len
                   /\ dataset.buf = NULL /\ data_len > 0
      cmp == memcmp(dataset.buf, data.data, data_len, Outcome(st.ub))
      unguarded == undefined /\ Outcome(st.ub) \in Unguarded
      faults == undefined /\ cmp.fault
      changed == new_entry_created
                 \/ dataset.length # data_len
                 \/ cmp.ret # 0
      merged == [buf |-> data.data,
                 data_source |-> SOURCE_SYNCED,
                 version |-> data.version,
                 length |-> data_len,
                 last_seen |-> t]
  IN IF new_entry_created /\ AllocFails(st, "dataset")
     THEN [st EXCEPT !.alloc = NoFailure, !.err = TRUE]
     ELSE IF dataset.data_source = SOURCE_LOCAL
     THEN [st EXCEPT
             !.log = Append(@, [mac |-> mac, data |-> data,
                                skipped |-> TRUE, changed |-> FALSE])]
     ELSE IF faults
     THEN [st EXCEPT
             !.data_hash = Put(@, key, [dataset EXCEPT !.last_seen = t]),
             !.fault = TRUE]
     ELSE IF AllocFails(st, "buf")
     THEN [st EXCEPT
             !.ub = IF undefined THEN Used(@) ELSE @,
             !.data_hash =
                Put(@, key, [dataset EXCEPT
                               !.buf = NULL,
                               !.length = IF dataset.buf = NULL /\ ~unguarded
                                          THEN @ ELSE 0,
                               !.last_seen = t]),
             !.log = Append(@, [mac |-> mac, data |-> data,
                                skipped |-> FALSE, changed |-> changed]),
             !.alloc = NoFailure, !.err = TRUE]
     ELSE [st EXCEPT
             !.ub = IF undefined THEN Used(@) ELSE @,
             !.data_hash = Put(@, key, merged),
             !.log = Append(@, [mac |-> mac, data |-> data,
                                skipped |-> FALSE, changed |-> changed])]

\* mutant: the entry's provenance is not looked at before it is overwritten
MergeRecord_NoLocalSkip(st, mac, data, t) ==
  LET key == <<data.type, data.source>>
      data_len == ntohs(data.length)
      new_entry_created == key \notin DOMAIN st.data_hash
      dataset == IF new_entry_created
                 THEN [buf |-> NULL, data_source |-> SOURCE_SYNCED,
                       version |-> data.version, length |-> data.length,
                       last_seen |-> 0]
                 ELSE st.data_hash[key]
      undefined == ~new_entry_created /\ dataset.length = data_len
                   /\ dataset.buf = NULL /\ data_len > 0
      cmp == memcmp(dataset.buf, data.data, data_len, Outcome(st.ub))
      unguarded == undefined /\ Outcome(st.ub) \in Unguarded
      faults == undefined /\ cmp.fault
      changed == new_entry_created
                 \/ dataset.length # data_len
                 \/ cmp.ret # 0
      merged == [buf |-> data.data,
                 data_source |-> IF mac = data.source THEN SOURCE_FIRST_HAND
                                 ELSE SOURCE_SYNCED,
                 version |-> data.version,
                 length |-> data_len,
                 last_seen |-> t]
  IN IF new_entry_created /\ AllocFails(st, "dataset")
     THEN [st EXCEPT !.alloc = NoFailure, !.err = TRUE]
     ELSE IF faults
     THEN [st EXCEPT
             !.data_hash = Put(@, key, [dataset EXCEPT !.last_seen = t]),
             !.fault = TRUE]
     ELSE IF AllocFails(st, "buf")
     THEN [st EXCEPT
             !.ub = IF undefined THEN Used(@) ELSE @,
             !.data_hash =
                Put(@, key, [dataset EXCEPT
                               !.buf = NULL,
                               !.length = IF dataset.buf = NULL /\ ~unguarded
                                          THEN @ ELSE 0,
                               !.last_seen = t]),
             !.log = Append(@, [mac |-> mac, data |-> data,
                                skipped |-> FALSE, changed |-> changed]),
             !.alloc = NoFailure, !.err = TRUE]
     ELSE [st EXCEPT
             !.ub = IF undefined THEN Used(@) ELSE @,
             !.data_hash = Put(@, key, merged),
             !.log = Append(@, [mac |-> mac, data |-> data,
                                skipped |-> FALSE, changed |-> changed])]

\* mutant: the payload bytes are not compared
MergeRecord_LengthOnly(st, mac, data, t) ==
  LET key == <<data.type, data.source>>
      data_len == ntohs(data.length)
      new_entry_created == key \notin DOMAIN st.data_hash
      dataset == IF new_entry_created
                 THEN [buf |-> NULL, data_source |-> SOURCE_SYNCED,
                       version |-> data.version, length |-> data.length,
                       last_seen |-> 0]
                 ELSE st.data_hash[key]
      undefined == FALSE
      unguarded == FALSE
      faults == FALSE
      changed == new_entry_created
                 \/ dataset.length # data_len
      merged == [buf |-> data.data,
                 data_source |-> IF mac = data.source THEN SOURCE_FIRST_HAND
                                 ELSE SOURCE_SYNCED,
                 version |-> data.version,
                 length |-> data_len,
                 last_seen |-> t]
  IN IF new_entry_created /\ AllocFails(st, "dataset")
     THEN [st EXCEPT !.alloc = NoFailure, !.err = TRUE]
     ELSE IF dataset.data_source = SOURCE_LOCAL
     THEN [st EXCEPT
             !.log = Append(@, [mac |-> mac, data |-> data,
                                skipped |-> TRUE, changed |-> FALSE])]
     ELSE IF faults
     THEN [st EXCEPT
             !.data_hash = Put(@, key, [dataset EXCEPT !.last_seen = t]),
             !.fault = TRUE]
     ELSE IF AllocFails(st, "buf")
     THEN [st EXCEPT
             !.ub = IF undefined THEN Used(@) ELSE @,
             !.data_hash =
                Put(@, key, [dataset EXCEPT
                               !.buf = NULL,
                               !.length = IF dataset.buf = NULL /\ ~unguarded
                                          THEN @ ELSE 0,
                               !.last_seen = t]),
             !.log = Append(@, [mac |-> mac, data |-> data,
                                skipped |-> FALSE, changed |-> changed]),
             !.alloc = NoFailure, !.err = TRUE]
     ELSE [st EXCEPT
             !.ub = IF undefined THEN Used(@) ELSE @,
             !.data_hash = Put(@, key, merged),
             !.log = Append(@, [mac |-> mac, data |-> data,
                                skipped |-> FALSE, changed |-> changed])]

\* one iteration of the loop body (lines 53-106) for record data sent by mac;
\* st = [data_hash, log, alloc, err, ub, fault].  The new entry is in the
\* table from hash_add on; when malloc(data_len) fails the old buffer is
\* already freed and the length zeroed, and the signal already raised.  An
\* entry such a failure left with buf = NULL reaches memcmp when its stored
\* length equals data_len: st.ub is what that call does, and st.fault is set
\* when it killed the process.
MergeRecord(st, mac, data, t) ==
  LET key == <<data.type, data.source>>
      data_len == ntohs(data.length)
      new_entry_created == key \notin DOMAIN st.data_hash
      dataset == IF new_entry_created
                 THEN [buf |-> NULL, data_source |-> SOURCE_SYNCED,
                       version |-> data.version, length |-> data.length,
                       last_seen |-> 0]
                 ELSE st.data_hash[key]
      undefined == ~new_entry_created /\ dataset.length = data_len
                   /\ dataset.buf = NULL /\ data_len > 0
      cmp == memcmp(dataset.buf, data.data, data_len, Outcome(st.ub))
      unguarded == undefined /\ Outcome(st.ub) \in Unguarded
      faults == undefined /\ cmp.fault
      changed == new_entry_created
                 \/ dataset.length # data_len
                 \/ cmp.ret # 0
      merged == [buf |-> data.data,
                 data_source |-> IF mac = data.source THEN SOURCE_FIRST_HAND
                                 ELSE SOURCE_SYNCED,
                 version |-> data.version,
                 length |-> data_len,
                 last_seen |-> t]
  IN IF new_entry_created /\ AllocFails(st, "dataset")
     THEN [st EXCEPT !.alloc = NoFailure, !.err = TRUE]
     ELSE IF dataset.data_source = SOURCE_LOCAL
     THEN [st EXCEPT
             !.log = Append(@, [mac |-> mac, data |-> data,
                                skipped |-> TRUE, changed |-> FALSE])]
     ELSE IF faults
     THEN [st EXCEPT
             !.data_hash = Put(@, key, [dataset EXCEPT !.last_seen = t]),
             !.fault = TRUE]
     ELSE IF AllocFails(st, "buf")
     THEN [st EXCEPT
             !.ub = IF undefined THEN Used(@) ELSE @,
             !.data_hash =
                Put(@, key, [dataset EXCEPT
                               !.buf = NULL,
                               !.length = IF dataset.buf = NULL /\ ~unguarded
                                          THEN @ ELSE 0,
                               !.last_seen = t]),
             !.log = Append(@, [mac |-> mac, data |-> data,
                                skipped |-> FALSE, changed |-> changed]),
             !.alloc = NoFailure, !.err = TRUE]
     ELSE [st EXCEPT
             !.ub = IF undefined THEN Used(@) ELSE @,
             !.data_hash = Put(@, key, merged),
             !.log = Append(@, [mac |-> mac, data |-> data,
                                skipped |-> FALSE, changed |-> changed])]

RECURSIVE MergeRecords(_, _, _, _)
MergeRecords(st, mac, recs, t) ==
  IF recs = <<>> \/ st.err \/ st.fault THEN st
  ELSE MergeRecords(MergeRecord(st, mac, Head(recs), t), mac, Tail(recs), t)

\* st = [data_hash, log, alloc, err, ub, fault]; push is a stored PUSH_DATA packet.  A
\* failed allocation ends the merge of this fragment (goto err)
finish_alfred_push_data(st, mac, push, t) ==
  LET len == ntohs(push.length)
  IN IF len < SizeofPush - SizeofTlv THEN st
     ELSE MergeRecords([st EXCEPT !.err = FALSE], mac,
                       ParseRecords(push.recs, len - (SizeofPush - SizeofTlv)),
                       t)

(***************************************************************************)
(* Transaction reassembler                                                 *)
(***************************************************************************)
transaction_add(th, mac, id, t) ==
  Put(th, <<mac, id>>,
      [server_addr |-> mac, id |-> id, requested_type |-> 0,
       txend_packets |-> 0, num_packet |-> 0, client_socket |-> -1,
       last_rx_time |-> t, packet_list |-> <<>>])

transaction_clean(th, head) == Remove(th, <<head.server_addr, head.id>>)

\* alfred.h: all announced packets have arrived
transaction_finished(head) == head.txend_packets = head.num_packet

RECURSIVE MergePackets(_, _, _, _)
MergePackets(st, mac, packets, t) ==
  IF packets = <<>> \/ st.fault THEN st
  ELSE MergePackets(finish_alfred_push_data(st, mac, Head(packets), t),
                    mac, Tail(packets), t)

\* mutant: the transaction is finished without the all-packets-received test
finish_alfred_transaction_Unchecked(g, head, mac, t) ==
  IF FALSE
  THEN [data_hash |-> g.data_hash, transaction_hash |-> g.transaction_hash,
        log |-> <<>>, hook |-> <<>>, ret |-> 0, fault |-> FALSE]
  ELSE LET st == MergePackets([data_hash |-> g.data_hash, log |-> <<>>,
                               alloc |-> g.alloc, err |-> FALSE,
                               ub |-> g.ub, fault |-> FALSE],
                              mac, head.packet_list, t)
       IN [data_hash |-> st.data_hash,
           transaction_hash |-> IF st.fault THEN g.transaction_hash
                                ELSE transaction_clean(g.transaction_hash, head),
           log |-> st.log,
           hook |-> IF st.fault \/ head.client_socket < 0 THEN <<>>
                    ELSE <<[head EXCEPT !.packet_list = <<>>]>>,
           ret |-> 1, fault |-> st.fault]

\* mutant: the head is not removed from the table after the merge
finish_alfred_transaction_NoClean(g, head, mac, t) ==
  IF ~transaction_finished(head)
  THEN [data_hash |-> g.data_hash, transaction_hash |-> g.transaction_hash,
        log |-> <<>>, hook |-> <<>>, ret |-> 0, fault |-> FALSE]
  ELSE LET st == MergePackets([data_hash |-> g.data_hash, log |-> <<>>,
                               alloc |-> g.alloc, err |-> FALSE,
                               ub |-> g.ub, fault |-> FALSE],
                              mac, head.packet_list, t)
       IN [data_hash |-> st.data_hash,
           transaction_hash |-> g.transaction_hash,
           log |-> st.log,
           hook |-> IF st.fault \/ head.client_socket < 0 THEN <<>>
                    ELSE <<[head EXCEPT !.packet_list = <<>>]>>,
           ret |-> 1, fault |-> st.fault]

\* packets sorted by sequence number
RECURSIVE BySeqno(_)
BySeqno(packets) ==
  IF packets = <<>> THEN <<>>
  ELSE LET least == CHOOSE i \in DOMAIN packets :
                      \A j \in DOMAIN packets :
                        ntohs(packets[i].seqno) <= ntohs(packets[j].seqno)
       IN <<packets[least]>> \o
          BySeqno([k \in 1..(Len(packets) - 1) |->
                     IF k < least THEN packets[k] ELSE packets[k + 1]])

\* mutant: the fragments are merged in the order of their sequence numbers
finish_alfred_transaction_SortedBySeqno(g, head, mac, t) ==
  IF ~transaction_finished(head)
  THEN [data_hash |-> g.data_hash, transaction_hash |-> g.transaction_hash,
        log |-> <<>>, hook |-> <<>>, ret |-> 0, fault |-> FALSE]
  ELSE LET st == MergePackets([data_hash |-> g.data_hash, log |-> <<>>,
                               alloc |-> g.alloc, err |-> FALSE,
                               ub |-> g.ub, fault |-> FALSE],
                              mac, BySeqno(head.packet_list), t)
       IN [data_hash |-> st.data_hash,
           transaction_hash |-> IF st.fault THEN g.transaction_hash
                                ELSE transaction_clean(g.transaction_hash, head),
           log |-> st.log,
           hook |-> IF st.fault \/ head.client_socket < 0 THEN <<>>
                    ELSE <<[head EXCEPT !.packet_list = <<>>]>>,
           ret |-> 1, fault |-> st.fault]

\* g = [data_hash, transaction_hash, alloc, ub]; head is stored in
\* g.transaction_hash.  Result: the new tables, the merge log, the heads
\* given to the request-finished hook, the return value, and fault: the
\* process was killed inside a merge, before transaction_clean.
finish_alfred_transaction(g, head, mac, t) ==
  IF ~transaction_finished(head)
  THEN [data_hash |-> g.data_hash, transaction_hash |-> g.transaction_hash,
        log |-> <<>>, hook |-> <<>>, ret |-> 0, fault |-> FALSE]
  ELSE LET st == MergePackets([data_hash |-> g.data_hash, log |-> <<>>,
                               alloc |-> g.alloc, err |-> FALSE,
                               ub |-> g.ub, fault |-> FALSE],
                              mac, head.packet_list, t)
       IN [data_hash |-> st.data_hash,
           transaction_hash |-> IF st.fault THEN g.transaction_hash
                                ELSE transaction_clean(g.transaction_hash, head),
           log |-> st.log,
           hook |-> IF st.fault \/ head.client_socket < 0 THEN <<>>
                    ELSE <<[head EXCEPT !.packet_list = <<>>]>>,
           ret |-> 1, fault |-> st.fault]

(***************************************************************************)
(* Collaborators of the core (spec.md 6)                                   *)
(***************************************************************************)
\* resolve_hwaddr_v4: the neighbour table of an interface; NoMac is ret < 0
ipv4_to_mac(interface, source) ==
  CASE source = "ipA" -> "A"
    [] source = "ipB" -> "B"
    [] OTHER -> NoMac

\* the source is a link-local EUI-64 address: that of a peer or an own one;
\* "ipU" is an address no hardware address can be synthesised from
is_ipv6_eui64(source) == source \in {"ipA", "ipB", "ipMe"}

\* resolve_hwaddr_v6: synthesised from an EUI-64 link-local address, and
\* from no other
ipv6_to_mac(source) ==
  CASE ~is_ipv6_eui64(source) -> NoMac
    [] source = "ipA" -> "A"
    [] source = "ipB" -> "B"
    [] OTHER -> "ME"

\* is_own_address
netsock_own_address(source) == source = "ipMe"

\* the address to hardware address step every handler starts with
to_mac(interface, source) ==
  IF ipv4mode THEN ipv4_to_mac(interface, source) ELSE ipv6_to_mac(source)

(***************************************************************************)
(* Inbound handlers.  g = [opmode, data_hash, transaction_hash, alloc, ub]; *)
(* a handler returns the new tables, what it logged and the path it        *)
(* returned by.  g.alloc names the allocation that fails: "head"           *)
(* (transaction_add), "packet" or "push" (the stored fragment), or one of  *)
(* the merge; g.ub is what an undefined call does.  Path "SIGSEGV": the    *)
(* process was killed.                                                     *)
(***************************************************************************)
Dropped(g, p) ==
  [data_hash |-> g.data_hash, transaction_hash |-> g.transaction_hash,
   log |-> <<>>, hook |-> <<>>, path |-> p]

\* the copy kept in the transaction: memcpy of header + len bytes
StoredPush(push) ==
  [type |-> push.type, version |-> push.version, length |-> push.length,
   tx_id |-> push.tx_id, seqno |-> push.seqno, recs |-> push.recs]

\* mutant: a slave creates the transaction like a master
process_alfred_push_data_AnyMode(g, interface, source, push, t) ==
  LET mac == to_mac(interface, source)
      len == ntohs(push.length)
      key == <<mac, ntohs(push.tx_id)>>
      known == key \in DOMAIN g.transaction_hash
  IN IF mac = NoMac THEN Dropped(g, "push_unresolved")
     ELSE IF len < SizeofPush - SizeofTlv THEN Dropped(g, "push_short")
     ELSE IF FALSE THEN Dropped(g, "push_no_transaction")
     ELSE IF ~known /\ g.alloc.site = "head" THEN Dropped(g, "push_head_failed")
     ELSE
       LET th1 == IF known THEN g.transaction_hash
                  ELSE transaction_add(g.transaction_hash, mac, ntohs(push.tx_id), t)
           head1 == [th1[key] EXCEPT !.last_rx_time = t]
           th2 == Put(th1, key, head1)
           found == \E i \in DOMAIN head1.packet_list :
                      head1.packet_list[i].seqno = push.seqno
       IN IF found
          THEN [data_hash |-> g.data_hash, transaction_hash |-> th2,
                log |-> <<>>, hook |-> <<>>, path |-> "push_duplicate"]
          ELSE IF g.alloc.site \in {"packet", "push"}
          THEN [data_hash |-> g.data_hash, transaction_hash |-> th2,
                log |-> <<>>, hook |-> <<>>, path |-> "push_packet_failed"]
          ELSE
            LET head2 == [head1 EXCEPT
                            !.packet_list = Append(@, StoredPush(push)),
                            !.num_packet = @ + 1]
                fin == finish_alfred_transaction(
                         [data_hash |-> g.data_hash,
                          transaction_hash |-> Put(th2, key, head2),
                          alloc |-> g.alloc, ub |-> g.ub],
                         head2, mac, t)
            IN [data_hash |-> fin.data_hash,
                transaction_hash |-> fin.transaction_hash,
                log |-> fin.log, hook |-> fin.hook,
                path |-> IF fin.fault THEN "SIGSEGV"
                         ELSE IF fin.ret = 1 THEN "push_finished"
                         ELSE "push_stored"]

\* mutant: the packet list is not searched for the seqno
process_alfred_push_data_NoDupCheck(g, interface, source, push, t) ==
  LET mac == to_mac(interface, source)
      len == ntohs(push.length)
      key == <<mac, ntohs(push.tx_id)>>
      known == key \in DOMAIN g.transaction_hash
  IN IF mac = NoMac THEN Dropped(g, "push_unresolved")
     ELSE IF len < SizeofPush - SizeofTlv THEN Dropped(g, "push_short")
     ELSE IF ~known /\ g.opmode # "MASTER" THEN Dropped(g, "push_no_transaction")
     ELSE IF ~known /\ g.alloc.site = "head" THEN Dropped(g, "push_head_failed")
     ELSE
       LET th1 == IF known THEN g.transaction_hash
                  ELSE transaction_add(g.transaction_hash, mac, ntohs(push.tx_id), t)
           head1 == [th1[key] EXCEPT !.last_rx_time = t]
           th2 == Put(th1, key, head1)
           found == FALSE
       IN IF found
          THEN [data_hash |-> g.data_hash, transaction_hash |-> th2,
                log |-> <<>>, hook |-> <<>>, path |-> "push_duplicate"]
          ELSE IF g.alloc.site \in {"packet", "push"}
          THEN [data_hash |-> g.data_hash, transaction_hash |-> th2,
                log |-> <<>>, hook |-> <<>>, path |-> "push_packet_failed"]
          ELSE
            LET head2 == [head1 EXCEPT
                            !.packet_list = Append(@, StoredPush(push)),
                            !.num_packet = @ + 1]
                fin == finish_alfred_transaction(
                         [data_hash |-> g.data_hash,
                          transaction_hash |-> Put(th2, key, head2),
                          alloc |-> g.alloc, ub |-> g.ub],
                         head2, mac, t)
            IN [data_hash |-> fin.data_hash,
                transaction_hash |-> fin.transaction_hash,
                log |-> fin.log, hook |-> fin.hook,
                path |-> IF fin.fault THEN "SIGSEGV"
                         ELSE IF fin.ret = 1 THEN "push_finished"
                         ELSE "push_stored"]

\* mutant: the opmode test is inverted
process_alfred_push_data_ModeSwapped(g, interface, source, push, t) ==
  LET mac == to_mac(interface, source)
      len == ntohs(push.length)
      key == <<mac, ntohs(push.tx_id)>>
      known == key \in DOMAIN g.transaction_hash
  IN IF mac = NoMac THEN Dropped(g, "push_unresolved")
     ELSE IF len < SizeofPush - SizeofTlv THEN Dropped(g, "push_short")
     ELSE IF ~known /\ g.opmode = "MASTER" THEN Dropped(g, "push_no_transaction")
     ELSE IF ~known /\ g.alloc.site = "head" THEN Dropped(g, "push_head_failed")
     ELSE
       LET th1 == IF known THEN g.transaction_hash
                  ELSE transaction_add(g.transaction_hash, mac, ntohs(push.tx_id), t)
           head1 == [th1[key] EXCEPT !.last_rx_time = t]
           th2 == Put(th1, key, head1)
           found == \E i \in DOMAIN head1.packet_list :
                      head1.packet_list[i].seqno = push.seqno
       IN IF found
          THEN [data_hash |-> g.data_hash, transaction_hash |-> th2,
                log |-> <<>>, hook |-> <<>>, path |-> "push_duplicate"]
          ELSE IF g.alloc.site \in {"packet", "push"}
          THEN [data_hash |-> g.data_hash, transaction_hash |-> th2,
                log |-> <<>>, hook |-> <<>>, path |-> "push_packet_failed"]
          ELSE
            LET head2 == [head1 EXCEPT
                            !.packet_list = Append(@, StoredPush(push)),
                            !.num_packet = @ + 1]
                fin == finish_alfred_transaction(
                         [data_hash |-> g.data_hash,
                          transaction_hash |-> Put(th2, key, head2),
                          alloc |-> g.alloc, ub |-> g.ub],
                         head2, mac, t)
            IN [data_hash |-> fin.data_hash,
                transaction_hash |-> fin.transaction_hash,
                log |-> fin.log, hook |-> fin.hook,
                path |-> IF fin.fault THEN "SIGSEGV"
                         ELSE IF fin.ret = 1 THEN "push_finished"
                         ELSE "push_stored"]

process_alfred_push_data(g, interface, source, push, t) ==
  LET mac == to_mac(interface, source)
      len == ntohs(push.length)
      key == <<mac, ntohs(push.tx_id)>>
      known == key \in DOMAIN g.transaction_hash
  IN IF mac = NoMac THEN Dropped(g, "push_unresolved")
     ELSE IF len < SizeofPush - SizeofTlv THEN Dropped(g, "push_short")
     ELSE IF ~known /\ g.opmode # "MASTER" THEN Dropped(g, "push_no_transaction")
     ELSE IF ~known /\ g.alloc.site = "head" THEN Dropped(g, "push_head_failed")
     ELSE
       LET th1 == IF known THEN g.transaction_hash
                  ELSE transaction_add(g.transaction_hash, mac, ntohs(push.tx_id), t)
           head1 == [th1[key] EXCEPT !.last_rx_time = t]
           th2 == Put(th1, key, head1)
           found == \E i \in DOMAIN head1.packet_list :
                      head1.packet_list[i].seqno = push.seqno
       IN IF found
          THEN [data_hash |-> g.data_hash, transaction_hash |-> th2,
                log |-> <<>>, hook |-> <<>>, path |-> "push_duplicate"]
          ELSE IF g.alloc.site \in {"packet", "push"}
          THEN [data_hash |-> g.data_hash, transaction_hash |-> th2,
                log |-> <<>>, hook |-> <<>>, path |-> "push_packet_failed"]
          ELSE
            LET head2 == [head1 EXCEPT
                            !.packet_list = Append(@, StoredPush(push)),
                            !.num_packet = @ + 1]
                fin == finish_alfred_transaction(
                         [data_hash |-> g.data_hash,
                          transaction_hash |-> Put(th2, key, head2),
                          alloc |-> g.alloc, ub |-> g.ub],
                         head2, mac, t)
            IN [data_hash |-> fin.data_hash,
                transaction_hash |-> fin.transaction_hash,
                log |-> fin.log, hook |-> fin.hook,
                path |-> IF fin.fault THEN "SIGSEGV"
                         ELSE IF fin.ret = 1 THEN "push_finished"
                         ELSE "push_stored"]

\* mutant: the 0-packet test comes after transaction_add
process_alfred_status_txend_LateZeroCheck(g, interface, source, request, t) ==
  LET len == ntohs(request.length)
      mac == to_mac(interface, source)
      key == <<mac, ntohs(request.tx_id)>>
      known == key \in DOMAIN g.transaction_hash
  IN IF request.version # ALFRED_VERSION THEN Dropped(g, "txend_version")
     ELSE IF len < SizeofStatus - SizeofTlv THEN Dropped(g, "txend_short")
     ELSE IF mac = NoMac THEN Dropped(g, "txend_unresolved")
     ELSE IF ~known /\ g.opmode # "MASTER" THEN Dropped(g, "txend_no_transaction")
     ELSE IF ~known /\ ntohs(request.seqno) = 0
     THEN [Dropped(g, "txend_zero_unknown") EXCEPT
             !.transaction_hash =
                transaction_add(g.transaction_hash, mac, ntohs(request.tx_id), t)]
     ELSE IF ~known /\ g.alloc.site = "head" THEN Dropped(g, "txend_head_failed")
     ELSE
       LET th1 == IF known THEN g.transaction_hash
                  ELSE transaction_add(g.transaction_hash, mac, ntohs(request.tx_id), t)
           head1 == [th1[key] EXCEPT !.last_rx_time = t,
                                     !.txend_packets = ntohs(request.seqno)]
           fin == finish_alfred_transaction(
                    [data_hash |-> g.data_hash,
                     transaction_hash |-> Put(th1, key, head1),
                     alloc |-> g.alloc, ub |-> g.ub],
                    head1, mac, t)
       IN [data_hash |-> fin.data_hash,
           transaction_hash |-> fin.transaction_hash,
           log |-> fin.log, hook |-> fin.hook,
           path |-> IF fin.fault THEN "SIGSEGV"
                    ELSE IF fin.ret = 1 THEN "txend_finished"
                    ELSE "txend_stored"]

\* mutant: the 0-packet test is made for known transactions too
process_alfred_status_txend_ZeroDropped(g, interface, source, request, t) ==
  LET len == ntohs(request.length)
      mac == to_mac(interface, source)
      key == <<mac, ntohs(request.tx_id)>>
      known == key \in DOMAIN g.transaction_hash
  IN IF request.version # ALFRED_VERSION THEN Dropped(g, "txend_version")
     ELSE IF len < SizeofStatus - SizeofTlv THEN Dropped(g, "txend_short")
     ELSE IF mac = NoMac THEN Dropped(g, "txend_unresolved")
     ELSE IF ~known /\ g.opmode # "MASTER" THEN Dropped(g, "txend_no_transaction")
     ELSE IF ntohs(request.seqno) = 0 THEN Dropped(g, "txend_zero_unknown")
     ELSE IF ~known /\ g.alloc.site = "head" THEN Dropped(g, "txend_head_failed")
     ELSE
       LET th1 == IF known THEN g.transaction_hash
                  ELSE transaction_add(g.transaction_hash, mac, ntohs(request.tx_id), t)
           head1 == [th1[key] EXCEPT !.last_rx_time = t,
                                     !.txend_packets = ntohs(request.seqno)]
           fin == finish_alfred_transaction(
                    [data_hash |-> g.data_hash,
                     transaction_hash |-> Put(th1, key, head1),
                     alloc |-> g.alloc, ub |-> g.ub],
                    head1, mac, t)
       IN [data_hash |-> fin.data_hash,
           transaction_hash |-> fin.transaction_hash,
           log |-> fin.log, hook |-> fin.hook,
           path |-> IF fin.fault THEN "SIGSEGV"
                    ELSE IF fin.ret = 1 THEN "txend_finished"
                    ELSE "txend_stored"]

process_alfred_status_txend(g, interface, source, request, t) ==
  LET len == ntohs(request.length)
      mac == to_mac(interface, source)
      key == <<mac, ntohs(request.tx_id)>>
      known == key \in DOMAIN g.transaction_hash
  IN IF request.version # ALFRED_VERSION THEN Dropped(g, "txend_version")
     ELSE IF len < SizeofStatus - SizeofTlv THEN Dropped(g, "txend_short")
     ELSE IF mac = NoMac THEN Dropped(g, "txend_unresolved")
     ELSE IF ~known /\ g.opmode # "MASTER" THEN Dropped(g, "txend_no_transaction")
     ELSE IF ~known /\ ntohs(request.seqno) = 0 THEN Dropped(g, "txend_zero_unknown")
     ELSE IF ~known /\ g.alloc.site = "head" THEN Dropped(g, "txend_head_failed")
     ELSE
       LET th1 == IF known THEN g.transaction_hash
                  ELSE transaction_add(g.transaction_hash, mac, ntohs(request.tx_id), t)
           head1 == [th1[key] EXCEPT !.last_rx_time = t,
                                     !.txend_packets = ntohs(request.seqno)]
           fin == finish_alfred_transaction(
                    [data_hash |-> g.data_hash,
                     transaction_hash |-> Put(th1, key, head1),
                     alloc |-> g.alloc, ub |-> g.ub],
                    head1, mac, t)
       IN [data_hash |-> fin.data_hash,
           transaction_hash |-> fin.transaction_hash,
           log |-> fin.log, hook |-> fin.hook,
           path |-> IF fin.fault THEN "SIGSEGV"
                    ELSE IF fin.ret = 1 THEN "txend_finished"
                    ELSE "txend_stored"]

\* ifc = interfaces[interface]; returns the new server_hash and the path.
\* alloc.site = "server": malloc(sizeof(*server)) or hash_add fails.
\* mutant: an announcement is recorded whether or not its sender resolves
process_alfred_announce_master_AnySender(ifc, interface, source, announce, t, alloc) ==
  LET mac == to_mac(interface, source)
      server == IF mac \in DOMAIN ifc.server_hash THEN ifc.server_hash[mac]
                ELSE [hwaddr |-> mac, address |-> source, tq |-> 0, last_seen |-> 0]
  IN IF announce.version # ALFRED_VERSION
     THEN [server_hash |-> ifc.server_hash, path |-> "announce_version"]
     ELSE IF mac \notin DOMAIN ifc.server_hash /\ alloc.site = "server"
     THEN [server_hash |-> ifc.server_hash, path |-> "announce_server_failed"]
     ELSE [server_hash |-> Put(ifc.server_hash, mac, [server EXCEPT !.last_seen = t]),
           path |-> IF mac \in DOMAIN ifc.server_hash THEN "announce_update"
                    ELSE "announce_new"]

\* mutant: last_seen is set when the record is created only
process_alfred_announce_master_NoRefresh(ifc, interface, source, announce, t, alloc) ==
  LET mac == to_mac(interface, source)
      server == IF mac \in DOMAIN ifc.server_hash THEN ifc.server_hash[mac]
                ELSE [hwaddr |-> mac, address |-> source, tq |-> 0, last_seen |-> t]
  IN IF mac = NoMac
     THEN [server_hash |-> ifc.server_hash, path |-> "announce_unresolved"]
     ELSE IF announce.version # ALFRED_VERSION
     THEN [server_hash |-> ifc.server_hash, path |-> "announce_version"]
     ELSE IF mac \notin DOMAIN ifc.server_hash /\ alloc.site = "server"
     THEN [server_hash |-> ifc.server_hash, path |-> "announce_server_failed"]
     ELSE [server_hash |-> Put(ifc.server_hash, mac, server),
           path |-> IF mac \in DOMAIN ifc.server_hash THEN "announce_update"
                    ELSE "announce_new"]

process_alfred_announce_master(ifc, interface, source, announce, t, alloc) ==
  LET mac == to_mac(interface, source)
      server == IF mac \in DOMAIN ifc.server_hash THEN ifc.server_hash[mac]
                ELSE [hwaddr |-> mac, address |-> source, tq |-> 0, last_seen |-> 0]
  IN IF mac = NoMac
     THEN [server_hash |-> ifc.server_hash, path |-> "announce_unresolved"]
     ELSE IF announce.version # ALFRED_VERSION
     THEN [server_hash |-> ifc.server_hash, path |-> "announce_version"]
     ELSE IF mac \notin DOMAIN ifc.server_hash /\ alloc.site = "server"
     THEN [server_hash |-> ifc.server_hash, path |-> "announce_server_failed"]
     ELSE [server_hash |-> Put(ifc.server_hash, mac, [server EXCEPT !.last_seen = t]),
           path |-> IF mac \in DOMAIN ifc.server_hash THEN "announce_update"
                    ELSE "announce_new"]

(***************************************************************************)
(* Outbound: send_alfred_packet, push_data                                 *)
(***************************************************************************)
\* mutant: a failed sendto closes the unicast socket only
send_alfred_packet_HalfClose(ss, interface, dest, buf, failAt) ==
  IF ss.interfaces[interface].netsock < 0 THEN ss
  ELSE IF ss.n + 1 = failAt
  THEN [interfaces |-> [ss.interfaces EXCEPT ![interface].netsock = -1],
        sent |-> ss.sent, n |-> ss.n + 1]
  ELSE [interfaces |-> ss.interfaces,
        sent |-> Append(ss.sent, [interface |-> interface, dest |-> dest, buf |-> buf]),
        n |-> ss.n + 1]

\* ss = [interfaces, sent, n]: the interfaces, the datagrams that left the
\* host and the number of sendto calls made so far in this operation.  The
\* failAt-th sendto call of the operation fails (0: none does); a failed
\* sendto returns -1, which is the value of -EPERM.
send_alfred_packet(ss, interface, dest, buf, failAt) ==
  IF ss.interfaces[interface].netsock < 0 THEN ss
  ELSE IF ss.n + 1 = failAt
  THEN [interfaces |-> [ss.interfaces EXCEPT ![interface].netsock = -1,
                                             ![interface].netsock_mcast = -1],
        sent |-> ss.sent, n |-> ss.n + 1]
  ELSE [interfaces |-> ss.interfaces,
        sent |-> Append(ss.sent, [interface |-> interface, dest |-> dest, buf |-> buf]),
        n |-> ss.n + 1]

RECURSIVE SendAll(_, _, _, _, _)
SendAll(ss, interface, dest, bufs, failAt) ==
  IF bufs = <<>> THEN ss
  ELSE SendAll(send_alfred_packet(ss, interface, dest, Head(bufs), failAt),
               interface, dest, Tail(bufs), failAt)

\* the PUSH_DATA datagram push_data emits for the buffer aggregated so far;
\* ps = [total_length, seqno, recs, out, ub, fault]
PushPacket(ps, tx_id) ==
  [type |-> ALFRED_PUSH_DATA, version |-> ALFRED_VERSION,
   length |-> htons(ps.total_length + (SizeofPush - SizeofTlv)),
   tx_id |-> tx_id, seqno |-> htons(ps.seqno), recs |-> ps.recs,
   size |-> SizeofPush + ps.total_length]

FlushPush(ps, tx_id) ==
  [ps EXCEPT !.total_length = 0, !.seqno = (@ + 1) % 65536, !.recs = <<>>,
             !.out = Append(@, PushPacket(ps, tx_id))]

\* mutant: the room the push header takes is not subtracted from MAX_PAYLOAD
RECURSIVE PushLoop_NoHeaderRoom(_, _, _, _, _, _)
PushLoop_NoHeaderRoom(dh, order, max_source_level, type_filter, tx_id, ps) ==
  IF order = <<>> \/ ps.fault THEN ps
  ELSE
    LET key == Head(order)
        dataset == dh[key]
        rest == Tail(order)
        TooBig(total) == total + dataset.length + SizeofData > MAX_PAYLOAD
        ps1 == IF TooBig(ps.total_length) THEN FlushPush(ps, tx_id) ELSE ps
        undefined == dataset.buf = NULL /\ dataset.length > 0
        data == [source |-> key[2], type |-> key[1], version |-> dataset.version,
                 length |-> htons(dataset.length),
                 data |-> IF undefined THEN Garbage ELSE dataset.buf]
    IN IF dataset.data_source > max_source_level
       THEN PushLoop_NoHeaderRoom(dh, rest, max_source_level, type_filter, tx_id, ps)
       ELSE IF type_filter >= 0 /\ key[1] # type_filter
       THEN PushLoop_NoHeaderRoom(dh, rest, max_source_level, type_filter, tx_id, ps)
       ELSE IF TooBig(ps.total_length) /\ ps.total_length = 0
       THEN PushLoop_NoHeaderRoom(dh, rest, max_source_level, type_filter, tx_id, ps)
       ELSE IF TooBig(ps1.total_length)
       THEN PushLoop_NoHeaderRoom(dh, rest, max_source_level, type_filter, tx_id, ps1)
       ELSE IF undefined /\ Outcome(ps.ub) = "SIGSEGV"
       THEN [ps1 EXCEPT !.fault = TRUE]
       ELSE PushLoop_NoHeaderRoom(dh, rest, max_source_level, type_filter, tx_id,
                     [ps1 EXCEPT !.ub = IF undefined THEN Used(@) ELSE @,
                                 !.recs = Append(@, data),
                                 !.total_length =
                                   (@ + dataset.length + SizeofData) % 65536])

\* The hash_iterate loop of push_data over the keys of order.  A dataset
\* with buf = NULL and a length above zero makes the copy into the datagram
\* undefined: it kills the process (the fragments flushed before are sent,
\* ps.fault is set), or it returns with bytes that are not the dataset's.
RECURSIVE PushLoop(_, _, _, _, _, _)
PushLoop(dh, order, max_source_level, type_filter, tx_id, ps) ==
  IF order = <<>> \/ ps.fault THEN ps
  ELSE
    LET key == Head(order)
        dataset == dh[key]
        rest == Tail(order)
        TooBig(total) == total + dataset.length + SizeofData > MAX_PAYLOAD - SizeofPush
        ps1 == IF TooBig(ps.total_length) THEN FlushPush(ps, tx_id) ELSE ps
        undefined == dataset.buf = NULL /\ dataset.length > 0
        data == [source |-> key[2], type |-> key[1], version |-> dataset.version,
                 length |-> htons(dataset.length),
                 data |-> IF undefined THEN Garbage ELSE dataset.buf]
    IN IF dataset.data_source > max_source_level
       THEN PushLoop(dh, rest, max_source_level, type_filter, tx_id, ps)
       ELSE IF type_filter >= 0 /\ key[1] # type_filter
       THEN PushLoop(dh, rest, max_source_level, type_filter, tx_id, ps)
       ELSE IF TooBig(ps.total_length) /\ ps.total_length = 0
       THEN PushLoop(dh, rest, max_source_level, type_filter, tx_id, ps)
       ELSE IF TooBig(ps1.total_length)
       THEN PushLoop(dh, rest, max_source_level, type_filter, tx_id, ps1)
       ELSE IF undefined /\ Outcome(ps.ub) = "SIGSEGV"
       THEN [ps1 EXCEPT !.fault = TRUE]
       ELSE PushLoop(dh, rest, max_source_level, type_filter, tx_id,
                     [ps1 EXCEPT !.ub = IF undefined THEN Used(@) ELSE @,
                                 !.recs = Append(@, data),
                                 !.total_length =
                                   (@ + dataset.length + SizeofData) % 65536])

\* mutant: the terminator is sent only when fragments were sent
PushEnd_NoEmptyTxend(ps, type_filter, tx_id) ==
  LET ps1 == IF ps.total_length # 0 THEN FlushPush(ps, tx_id) ELSE ps
      status_end == [type |-> ALFRED_STATUS_TXEND, version |-> ALFRED_VERSION,
                     length |-> htons(SizeofStatus - SizeofTlv),
                     tx_id |-> tx_id, seqno |-> htons(ps1.seqno),
                     size |-> SizeofStatus]
  IN IF ps.fault THEN [bufs |-> ps.out, ub |-> ps.ub, fault |-> TRUE]
     ELSE IF ps1.seqno > 0
     THEN [bufs |-> Append(ps1.out, status_end), ub |-> ps.ub, fault |-> FALSE]
     ELSE [bufs |-> ps1.out, ub |-> ps.ub, fault |-> FALSE]

\* What push_data does after the loop that left ps: the final packet and
\* the terminator, unless a copy of the loop killed the process.
PushEnd(ps, type_filter, tx_id) ==
  LET ps1 == IF ps.total_length # 0 THEN FlushPush(ps, tx_id) ELSE ps
      status_end == [type |-> ALFRED_STATUS_TXEND, version |-> ALFRED_VERSION,
                     length |-> htons(SizeofStatus - SizeofTlv),
                     tx_id |-> tx_id, seqno |-> htons(ps1.seqno),
                     size |-> SizeofStatus]
  IN IF ps.fault THEN [bufs |-> ps.out, ub |-> ps.ub, fault |-> TRUE]
     ELSE IF ps1.seqno > 0 \/ type_filter # NO_FILTER
     THEN [bufs |-> Append(ps1.out, status_end), ub |-> ps.ub, fault |-> FALSE]
     ELSE [bufs |-> ps1.out, ub |-> ps.ub, fault |-> FALSE]

\* mutant: the terminator is sent only when fragments were sent
push_data_NoEmptyTxend(dh, order, max_source_level, type_filter, tx_id, ub) ==
  PushEnd_NoEmptyTxend(
    PushLoop(dh, order, max_source_level, type_filter, tx_id,
             [total_length |-> 0, seqno |-> 0, recs |-> <<>>,
              out |-> <<>>, ub |-> ub, fault |-> FALSE]),
    type_filter, tx_id)

\* bufs: the datagrams push_data hands to send_alfred_packet, in order;
\* order is the order in which hash_iterate walks data_hash.  ub is what the
\* undefined copies of the call do, fault that one killed the process.
push_data(dh, order, max_source_level, type_filter, tx_id, ub) ==
  PushEnd(PushLoop(dh, order, max_source_level, type_filter, tx_id,
                   [total_length |-> 0, seqno |-> 0, recs |-> <<>>,
                    out |-> <<>>, ub |-> ub, fault |-> FALSE]),
          type_filter, tx_id)

\* what one push_data call leaves in push_log
PushCall(interface, dest, max_source_level, type_filter, tx_id, bufs) ==
  [interface |-> interface, dest |-> dest, max_source_level |-> max_source_level,
   type_filter |-> type_filter, tx_id |-> tx_id, bufs |-> bufs]

\* all orders in which a hash table's keys can be walked
Orders(h) ==
  {o \in [1..Cardinality(DOMAIN h) -> DOMAIN h] :
     \A i, j \in DOMAIN o : i # j => o[i] # o[j]}

(***************************************************************************)
(* recv_alfred_packet: one datagram d read from the socket of interface    *)
(***************************************************************************)
EmptyHash == [x \in {} |-> 0]

\* the result of an operation that touches nothing
Untouched(G, p) ==
  [data_hash |-> G.data_hash, transaction_hash |-> G.transaction_hash,
   interfaces |-> G.interfaces, path |-> p, log |-> <<>>, hook |-> <<>>,
   push_log |-> <<>>, sent |-> <<>>]

\* the answer pd of push_data on its way out of interface to source
Answer(G, interface, source, request, pd, failAt) ==
  LET ss == SendAll([interfaces |-> G.interfaces, sent |-> <<>>, n |-> 0],
                    interface, source, pd.bufs, failAt)
  IN [Untouched(G, IF pd.fault THEN "SIGSEGV" ELSE "request_served") EXCEPT
        !.interfaces = ss.interfaces,
        !.push_log = <<PushCall(interface, source, SOURCE_SYNCED,
                                request.requested_type, request.tx_id, pd.bufs)>>,
        !.sent = ss.sent]

\* G = [opmode, now, data_hash, transaction_hash, interfaces, alloc, ub]
process_alfred_request(G, interface, source, request, order, failAt) ==
  LET len == ntohs(request.length)
  IN IF request.version # ALFRED_VERSION THEN Untouched(G, "request_version")
     ELSE IF len < SizeofRequest - SizeofTlv THEN Untouched(G, "request_short")
     ELSE Answer(G, interface, source, request,
                 push_data(G.data_hash, order, SOURCE_SYNCED,
                           request.requested_type, request.tx_id, G.ub),
                 failAt)

\* mutant: datagrams from the own address are not dropped
recv_alfred_packet_NoOwnCheck(G, interface, d, order, failAt) ==
  LET g == [opmode |-> G.opmode, data_hash |-> G.data_hash,
            transaction_hash |-> G.transaction_hash, alloc |-> G.alloc,
            ub |-> G.ub]
      Tables(r) == [Untouched(G, r.path) EXCEPT
                      !.data_hash = r.data_hash,
                      !.transaction_hash = r.transaction_hash,
                      !.log = r.log, !.hook = r.hook]
  IN IF G.interfaces[interface].netsock < 0 THEN Untouched(G, "recv_closed")
     ELSE IF d.size <= 0 THEN Untouched(G, "recv_error")
     ELSE IF ~ipv4mode /\ ~is_ipv6_eui64(d.src) THEN Untouched(G, "recv_not_eui64")
     ELSE IF d.size < SizeofTlv \/ d.size < ntohs(d.length) + SizeofTlv
     THEN Untouched(G, "recv_truncated")
     ELSE IF d.version # ALFRED_VERSION THEN Untouched(G, "recv_version")
     ELSE IF d.type = ALFRED_PUSH_DATA
     THEN Tables(process_alfred_push_data(g, interface, d.src, d, G.now))
     ELSE IF d.type = ALFRED_ANNOUNCE_MASTER
     THEN LET r == process_alfred_announce_master(G.interfaces[interface],
                                                  interface, d.src, d, G.now,
                                                  G.alloc)
          IN [Untouched(G, r.path) EXCEPT
                !.interfaces = [G.interfaces EXCEPT
                                  ![interface].server_hash = r.server_hash]]
     ELSE IF d.type = ALFRED_REQUEST
     THEN process_alfred_request(G, interface, d.src, d, order, failAt)
     ELSE IF d.type = ALFRED_STATUS_TXEND
     THEN Tables(process_alfred_status_txend(g, interface, d.src, d, G.now))
     ELSE Untouched(G, "recv_unknown_type")

recv_alfred_packet(G, interface, d, order, failAt) ==
  LET g == [opmode |-> G.opmode, data_hash |-> G.data_hash,
            transaction_hash |-> G.transaction_hash, alloc |-> G.alloc,
            ub |-> G.ub]
      Tables(r) == [Untouched(G, r.path) EXCEPT
                      !.data_hash = r.data_hash,
                      !.transaction_hash = r.transaction_hash,
                      !.log = r.log, !.hook = r.hook]
  IN IF G.interfaces[interface].netsock < 0 THEN Untouched(G, "recv_closed")
     ELSE IF d.size <= 0 THEN Untouched(G, "recv_error")
     ELSE IF ~ipv4mode /\ ~is_ipv6_eui64(d.src) THEN Untouched(G, "recv_not_eui64")
     ELSE IF netsock_own_address(d.src) THEN Untouched(G, "recv_own")
     ELSE IF d.size < SizeofTlv \/ d.size < ntohs(d.length) + SizeofTlv
     THEN Untouched(G, "recv_truncated")
     ELSE IF d.version # ALFRED_VERSION THEN Untouched(G, "recv_version")
     ELSE IF d.type = ALFRED_PUSH_DATA
     THEN Tables(process_alfred_push_data(g, interface, d.src, d, G.now))
     ELSE IF d.type = ALFRED_ANNOUNCE_MASTER
     THEN LET r == process_alfred_announce_master(G.interfaces[interface],
                                                  interface, d.src, d, G.now,
                                                  G.alloc)
          IN [Untouched(G, r.path) EXCEPT
                !.interfaces = [G.interfaces EXCEPT
                                  ![interface].server_hash = r.server_hash]]
     ELSE IF d.type = ALFRED_REQUEST
     THEN process_alfred_request(G, interface, d.src, d, order, failAt)
     ELSE IF d.type = ALFRED_STATUS_TXEND
     THEN Tables(process_alfred_status_txend(g, interface, d.src, d, G.now))
     ELSE Untouched(G, "recv_unknown_type")

(***************************************************************************)
(* Periodic outbound operations                                            *)
(***************************************************************************)
\* the announcement goes to the multicast group on every interface
RECURSIVE AnnounceOn(_, _, _)
AnnounceOn(ss, ifs, failAt) ==
  IF ifs = <<>> THEN ss
  ELSE AnnounceOn(
         send_alfred_packet(ss, Head(ifs), "mcast",
                            [type |-> ALFRED_ANNOUNCE_MASTER,
                             version |-> ALFRED_VERSION, length |-> htons(0),
                             size |-> SizeofAnnounce],
                            failAt),
         Tail(ifs), failAt)

\* the interface list, in list order
InterfaceList == <<"if0", "if1">>

Interfaces == Range(InterfaceList)

announce_master(G, failAt) ==
  LET ss == AnnounceOn([interfaces |-> G.interfaces, sent |-> <<>>, n |-> 0],
                       InterfaceList, failAt)
  IN [Untouched(G, "announce_master") EXCEPT
        !.interfaces = ss.interfaces, !.sent = ss.sent]

\* what the push_data call for target tg, which handed out pd, adds to ps
Pushed(ps, tg, max_source_level, pd, failAt) ==
  [ss |-> SendAll(ps.ss, tg.interface, tg.dest, pd.bufs, failAt),
   push_log |-> Append(ps.push_log,
                       PushCall(tg.interface, tg.dest, max_source_level,
                                NO_FILTER, tg.tx_id, pd.bufs)),
   ub |-> pd.ub, fault |-> pd.fault]

\* One push_data call per target; targets is a sequence of
\* [interface, dest, tx_id].  ps = [ss, push_log, ub, fault]; the calls stop
\* with the one that kills the process.
RECURSIVE PushTo(_, _, _, _, _, _)
PushTo(ps, dh, order, targets, max_source_level, failAt) ==
  IF targets = <<>> \/ ps.fault THEN ps
  ELSE PushTo(Pushed(ps, Head(targets), max_source_level,
                     push_data(dh, order, max_source_level, NO_FILTER,
                               Head(targets).tx_id, ps.ub),
                     failAt),
              dh, order, Tail(targets), max_source_level, failAt)

\* what the pushes r of an operation that returns by path p leave behind
PushResult(G, r, p) ==
  [Untouched(G, IF r.fault THEN "SIGSEGV" ELSE p) EXCEPT
     !.interfaces = r.ss.interfaces, !.sent = r.ss.sent,
     !.push_log = r.push_log]

\* the servers of every interface in list order, each with the random id
\* ids hands out next; srv_order[i] is the walk over interface i's server_hash
RECURSIVE SyncTargets(_, _, _, _)
SyncTargets(G, ifs, srv_order, ids) ==
  IF ifs = <<>> THEN <<>>
  ELSE LET i == Head(ifs)
           so == srv_order[i]
           mine == [k \in DOMAIN so |->
                      [interface |-> i,
                       dest |-> G.interfaces[i].server_hash[so[k]].address,
                       tx_id |-> ids[k]]]
       IN mine \o SyncTargets(G, Tail(ifs), srv_order,
                              SubSeq(ids, Len(so) + 1, Len(ids)))

\* mutant: the length of a pushed dataset is converted in the store instead
\* of in the copy that goes on the wire
sync_data_ConvertsInPlace(G, order, srv_order, ids, failAt) ==
  [PushResult(G,
              PushTo([ss |-> [interfaces |-> G.interfaces, sent |-> <<>>, n |-> 0],
                      push_log |-> <<>>, ub |-> G.ub, fault |-> FALSE],
                     G.data_hash, order,
                     SyncTargets(G, InterfaceList, srv_order, ids),
                     SOURCE_FIRST_HAND, failAt),
              "sync_data") EXCEPT
     !.data_hash = [k \in DOMAIN G.data_hash |->
                      IF G.data_hash[k].data_source <= SOURCE_FIRST_HAND
                      THEN [G.data_hash[k] EXCEPT !.length = htons(@)]
                      ELSE G.data_hash[k]]]

\* mutant: the periodic sync pushes every provenance
sync_data_AllLevels(G, order, srv_order, ids, failAt) ==
  PushResult(G,
             PushTo([ss |-> [interfaces |-> G.interfaces, sent |-> <<>>, n |-> 0],
                     push_log |-> <<>>, ub |-> G.ub, fault |-> FALSE],
                    G.data_hash, order,
                    SyncTargets(G, InterfaceList, srv_order, ids),
                    SOURCE_SYNCED, failAt),
             "sync_data")

sync_data(G, order, srv_order, ids, failAt) ==
  PushResult(G,
             PushTo([ss |-> [interfaces |-> G.interfaces, sent |-> <<>>, n |-> 0],
                     push_log |-> <<>>, ub |-> G.ub, fault |-> FALSE],
                    G.data_hash, order,
                    SyncTargets(G, InterfaceList, srv_order, ids),
                    SOURCE_FIRST_HAND, failAt),
             "sync_data")

\* the targets of push_local_data: best on every interface
LocalTargets(best, ids) ==
  [k \in DOMAIN InterfaceList |->
     [interface |-> InterfaceList[k], dest |-> best.address, tx_id |-> ids[k]]]

\* best is globals->best_server: a server record, or NoServer
push_local_data(G, best, order, ids, failAt) ==
  IF best = NoServer THEN Untouched(G, "push_local_no_server")
  ELSE PushResult(G,
                  PushTo([ss |-> [interfaces |-> G.interfaces, sent |-> <<>>,
                                  n |-> 0],
                          push_log |-> <<>>, ub |-> G.ub, fault |-> FALSE],
                         G.data_hash, order, LocalTargets(best, ids),
                         SOURCE_LOCAL, failAt),
                  "push_local_data")

(***************************************************************************)
(* Collaborator operations that feed the core (spec.md 3, 4.5, 5)          *)
(***************************************************************************)
\* a local client stores a dataset: provenance LOCAL, source this node
unix_sock_add_data(dh, type, version, length, buf, t) ==
  Put(dh, <<type, "ME">>,
      [buf |-> buf, data_source |-> SOURCE_LOCAL, version |-> version,
       length |-> length, last_seen |-> t])

\* a local client asks for a type: the transaction towards the best server
\* is created with the client's socket, then the REQUEST is sent
unix_sock_req_data(th, best, id, requested_type, client_sock, t) ==
  Put(th, <<best.hwaddr, id>>,
      [transaction_add(th, best.hwaddr, id, t)[<<best.hwaddr, id>>] EXCEPT
         !.client_socket = client_sock,
         !.requested_type = requested_type])

\* the servers a slave can pick its best server from
KnownServers(ifs) ==
  UNION {{[hwaddr |-> m, address |-> ifs[i].server_hash[m].address] :
            m \in DOMAIN ifs[i].server_hash} : i \in DOMAIN ifs}

(***************************************************************************)
(* State, initial states                                                   *)
(***************************************************************************)
G == [opmode |-> opmode, now |-> now, data_hash |-> data_hash,
      transaction_hash |-> transaction_hash, interfaces |-> interfaces,
      alloc |-> NoFailure, ub |-> <<>>]

OpenInterface == [netsock |-> 3, netsock_mcast |-> 4, server_hash |-> EmptyHash]

NoOutput ==
  /\ merge_log = <<>>
  /\ finish_hook = <<>>
  /\ push_log = <<>>
  /\ sent = <<>>
  /\ completed_tx = {}

Init ==
  /\ opmode \in {"MASTER", "SLAVE"}
  /\ ipv4mode = TRUE
  /\ now = 0
  /\ data_hash = EmptyHash
  /\ transaction_hash = EmptyHash
  /\ interfaces = [i \in Interfaces |-> OpenInterface]
  /\ best_server = NoServer
  /\ path = "init"
  /\ NoOutput

\* a process killed by a signal takes no further step
Alive == path # "SIGSEGV"

\* what an operation of the core leaves behind
Apply(r) ==
  /\ Alive
  /\ data_hash' = r.data_hash
  /\ transaction_hash' = r.transaction_hash
  /\ interfaces' = r.interfaces
  /\ path' = r.path
  /\ merge_log' = r.log
  /\ finish_hook' = r.hook
  /\ push_log' = r.push_log
  /\ sent' = r.sent
  /\ UNCHANGED <<opmode, ipv4mode, now, best_server>>

\* the history of completions: a key enters when its head leaves the table
\* and leaves when a head is created under it again
Track ==
  completed_tx' = (completed_tx \cup (DOMAIN transaction_hash \ DOMAIN transaction_hash'))
                    \ (DOMAIN transaction_hash' \ DOMAIN transaction_hash)

(***************************************************************************)
(* Actions                                                                 *)
(***************************************************************************)
\* What reading datagram d leaves behind, r being what it leaves when the
\* first undefined call of the handler kills the process (G.ub = <<>>): a
\* run that does not end that way made no such call; one that does is taken
\* with every outcome the undefined calls can have.
RecvApply(r, Gx, interface, d, order, failAt) ==
  IF r.path # "SIGSEGV" THEN Apply(r)
  ELSE \E ub \in UndefinedRuns(MaxUndefined) :
         Apply(recv_alfred_packet([Gx EXCEPT !.ub = ub], interface, d, order,
                                  failAt))

SyncApply(r, order, srv_order, ids, failAt) ==
  IF r.path # "SIGSEGV" THEN Apply(r)
  ELSE \E ub \in UndefinedRuns(MaxUndefined) :
         Apply(sync_data([G EXCEPT !.ub = ub], order, srv_order, ids, failAt))

PushLocalApply(r, order, ids, failAt) ==
  IF r.path # "SIGSEGV" THEN Apply(r)
  ELSE \E ub \in UndefinedRuns(MaxUndefined) :
         Apply(push_local_data([G EXCEPT !.ub = ub], best_server, order, ids,
                               failAt))

\* the event loop reads datagram d from the socket of interface
RecvPacket(interface, d, order, failAt) ==
  /\ RecvApply(recv_alfred_packet(G, interface, d, order, failAt),
               G, interface, d, order, failAt)
  /\ Cardinality(DOMAIN transaction_hash') <= MaxTrans
  /\ UNCHANGED completed_tx

\* the same step when allocation alloc of the handler fails
RecvPacketNoMem(interface, d, order, failAt, alloc) ==
  /\ RecvApply(recv_alfred_packet([G EXCEPT !.alloc = alloc], interface, d,
                                  order, failAt),
               [G EXCEPT !.alloc = alloc], interface, d, order, failAt)
  /\ Cardinality(DOMAIN transaction_hash') <= MaxTrans
  /\ UNCHANGED completed_tx

\* the same step, with the history of completions kept
RecvPacketTracked(interface, d, order, failAt) ==
  /\ RecvApply(recv_alfred_packet(G, interface, d, order, failAt),
               G, interface, d, order, failAt)
  /\ Cardinality(DOMAIN transaction_hash') <= MaxTrans
  /\ Track

AnnounceMaster(failAt) ==
  /\ opmode = "MASTER"
  /\ Apply(announce_master(G, failAt))
  /\ UNCHANGED completed_tx

SyncData(order, srv_order, ids, failAt) ==
  /\ SyncApply(sync_data(G, order, srv_order, ids, failAt),
               order, srv_order, ids, failAt)
  /\ UNCHANGED completed_tx

PushLocalData(order, ids, failAt) ==
  /\ opmode = "SLAVE"
  /\ PushLocalApply(push_local_data(G, best_server, order, ids, failAt),
                    order, ids, failAt)
  /\ UNCHANGED completed_tx

Tick ==
  /\ Alive
  /\ now < MaxTime
  /\ now' = now + 1
  /\ path' = "tick"
  /\ merge_log' = <<>>
  /\ finish_hook' = <<>>
  /\ push_log' = <<>>
  /\ sent' = <<>>
  /\ UNCHANGED <<opmode, ipv4mode, data_hash, transaction_hash, interfaces, best_server,
                 completed_tx>>

LocalAddData(type, version, length, buf) ==
  /\ Apply([Untouched(G, "local_add") EXCEPT
              !.data_hash = unix_sock_add_data(data_hash, type, version,
                                               length, buf, now)])
  /\ UNCHANGED completed_tx

LocalReqData(id, requested_type, client_sock) ==
  /\ best_server # NoServer
  /\ <<best_server.hwaddr, id>> \notin DOMAIN transaction_hash
  /\ Cardinality(DOMAIN transaction_hash) < MaxTrans
  /\ Apply([Untouched(G, "local_request") EXCEPT
              !.transaction_hash =
                 unix_sock_req_data(transaction_hash, best_server, id,
                                    requested_type, client_sock, now)])
  /\ Track

\* a slave picks its upstream among the servers it has heard announce
UpdateServerInfo(server) ==
  /\ Alive
  /\ opmode = "SLAVE"
  /\ server \in KnownServers(interfaces)
  /\ best_server # server
  /\ best_server' = server
  /\ path' = "update_server_info"
  /\ merge_log' = <<>>
  /\ finish_hook' = <<>>
  /\ push_log' = <<>>
  /\ sent' = <<>>
  /\ UNCHANGED <<opmode, ipv4mode, now, data_hash, transaction_hash, interfaces,
                 completed_tx>>

\* the collaborator reopens the sockets of an interface
NetsockReopen(interface) ==
  /\ Alive
  /\ interfaces[interface].netsock < 0
  /\ interfaces' = [interfaces EXCEPT ![interface].netsock = 3,
                                      ![interface].netsock_mcast = 4]
  /\ path' = "netsock_reopen"
  /\ merge_log' = <<>>
  /\ finish_hook' = <<>>
  /\ push_log' = <<>>
  /\ sent' = <<>>
  /\ UNCHANGED <<opmode, ipv4mode, now, data_hash, transaction_hash, best_server,
                 completed_tx>>

(***************************************************************************)
(* Datagrams as they arrive                                                *)
(***************************************************************************)
Data(source, type, version, len, buf) ==
  [source |-> source, type |-> type, version |-> version,
   length |-> htons(len), data |-> buf]

RECURSIVE BodyLen(_)
BodyLen(recs) ==
  IF recs = <<>> THEN 0
  ELSE SizeofData + ntohs(Head(recs).length) + BodyLen(Tail(recs))

\* a PUSH_DATA datagram carrying recs whose header length is cut bytes short
\* of the body it carries
PushData(src, tx_id, seqno, recs, cut) ==
  [src |-> src, type |-> ALFRED_PUSH_DATA, version |-> ALFRED_VERSION,
   length |-> htons((SizeofPush - SizeofTlv) + BodyLen(recs) - cut),
   tx_id |-> htons(tx_id), seqno |-> htons(seqno), recs |-> recs,
   size |-> SizeofPush + BodyLen(recs)]

StatusTxend(src, tx_id, seqno) ==
  [src |-> src, type |-> ALFRED_STATUS_TXEND, version |-> ALFRED_VERSION,
   length |-> htons(SizeofStatus - SizeofTlv),
   tx_id |-> htons(tx_id), seqno |-> htons(seqno), size |-> SizeofStatus]

Request(src, requested_type, tx_id) ==
  [src |-> src, type |-> ALFRED_REQUEST, version |-> ALFRED_VERSION,
   length |-> htons(SizeofRequest - SizeofTlv),
   requested_type |-> requested_type, tx_id |-> htons(tx_id),
   size |-> SizeofRequest]

Announce(src) ==
  [src |-> src, type |-> ALFRED_ANNOUNCE_MASTER, version |-> ALFRED_VERSION,
   length |-> htons(0), size |-> SizeofAnnounce]

\* data records on the wire
rAx == Data("A", 1, 0, 2, "x")
rAy == Data("A", 1, 1, 2, "y")
rAe == Data("A", 1, 0, 0, "")
rB == Data("B", 2, 0, 3, "b")
rM == Data("ME", 1, 0, 2, "y")
\* 257 bytes: the length reads the same in network and in host byte order
rBw == Data("B", 2, 0, 257, "w")
rAw == Data("A", 1, 0, 257, "w")

\* transaction ids in host order
HostIds == {1}

(***************************************************************************)
(* SpecTx: the transaction traffic of one instant, on interface if0        *)
(***************************************************************************)
TxPushes ==
  UNION {{PushData("ipA", id, 0, <<rAx>>, 0),
          PushData("ipA", id, 1, <<rAy, rM>>, 0),
          PushData("ipB", id, 0, <<rAx, rB>>, 1),
          PushData("ipB", id, 1, <<rB>>, 0)} : id \in HostIds}
  \cup {PushData("ipA", 1, 0, <<rAe>>, 0),
        PushData("ipU", 1, 0, <<rAx>>, 0),
        PushData("ipA", 1, 0, <<>>, 1)}

TxSeqnos == {0, 1, 2}

TxEnds ==
  {StatusTxend(src, id, n) : src \in {"ipA", "ipB"}, id \in HostIds, n \in TxSeqnos}
  \cup {StatusTxend("ipU", 1, 1)}

TxDatagrams == TxPushes \cup TxEnds

ServerA == [hwaddr |-> "A", address |-> "ipA"]

\* A has announced itself on if0; a slave has picked it as its best server
InitPeerA ==
  /\ opmode \in {"MASTER", "SLAVE"}
  /\ now = 0
  /\ data_hash = EmptyHash
  /\ transaction_hash = EmptyHash
  /\ interfaces =
       [i \in Interfaces |->
          IF i = "if0"
          THEN [OpenInterface EXCEPT
                  !.server_hash =
                     Put(EmptyHash, "A",
                         [hwaddr |-> "A", address |-> "ipA", tq |-> 0, last_seen |-> 0])]
          ELSE OpenInterface]
  /\ best_server = IF opmode = "SLAVE" THEN ServerA ELSE NoServer
  /\ path = "init"
  /\ NoOutput

\* the same on the IPv4 transport
InitTx ==
  /\ ipv4mode = TRUE
  /\ InitPeerA

\* the same on either transport
InitTransports ==
  /\ ipv4mode \in BOOLEAN
  /\ InitPeerA

TxRecv == \E d \in TxDatagrams : RecvPacket("if0", d, <<>>, 0)

TxLocalReq == \E id \in HostIds : LocalReqData(id, 1, 5)

TxLocalAdd == LocalAddData(1, 0, 2, "l")

NextTx == TxRecv \/ TxLocalReq \/ TxLocalAdd

SpecTx == InitTx /\ [][NextTx]_vars

(***************************************************************************)
(* Vocabulary of the properties                                            *)
(***************************************************************************)
\* the step of SpecTx that reads datagram d
TxStep(d) == RecvPacket("if0", d, <<>>, 0)

\* the transaction a PUSH_DATA or STATUS_TXEND on if0 belongs to
TxKey(d) == <<to_mac("if0", d.src), ntohs(d.tx_id)>>

\* the data records a stored fragment carries
CarriedBy(push) ==
  IF ntohs(push.length) < SizeofPush - SizeofTlv THEN <<>>
  ELSE ParseRecords(push.recs, ntohs(push.length) - (SizeofPush - SizeofTlv))

\* the data records of a fragment list, in list order
RECURSIVE Carried(_)
Carried(packets) ==
  IF packets = <<>> THEN <<>>
  ELSE CarriedBy(Head(packets)) \o Carried(Tail(packets))

\* the fragments of the transaction of d once d is taken in
FragmentsWith(d) ==
  LET old == IF TxKey(d) \in DOMAIN transaction_hash
             THEN transaction_hash[TxKey(d)].packet_list ELSE <<>>
  IN IF d.type = ALFRED_PUSH_DATA THEN Append(old, StoredPush(d)) ELSE old

\* this step removed the head of transaction k from the table
Completes(k) ==
  k \in DOMAIN transaction_hash /\ k \notin DOMAIN transaction_hash'

\* the dataset stored under key holds record r as received from peer
Holds(dh, r, peer) ==
  LET key == <<r.type, r.source>>
  IN /\ key \in DOMAIN dh
     /\ dh[key].buf = r.data
     /\ dh[key].length = ntohs(r.length)
     /\ dh[key].version = r.version
     /\ dh[key].data_source = IF r.source = peer THEN SOURCE_FIRST_HAND
                              ELSE SOURCE_SYNCED

WasLocal(r) ==
  /\ <<r.type, r.source>> \in DOMAIN data_hash
  /\ data_hash[<<r.type, r.source>>].data_source = SOURCE_LOCAL

(***************************************************************************)
(* C2                                                                      *)
(***************************************************************************)
\* C2 as stated: when a transaction from peer P completes, every data
\* record r carried by its fragments is afterwards stored under
\* (r.type, r.source) with r's payload, length and version, unless a LOCAL
\* entry already existed under that key, with provenance FIRST_HAND iff
\* r.source = P and SYNCED otherwise.
C2_EveryRecordStored ==
  [][\A d \in TxDatagrams :
       (Completes(TxKey(d)) /\ TxStep(d)) =>
         \A r \in Range(Carried(FragmentsWith(d))) :
           WasLocal(r) \/ Holds(data_hash', r, TxKey(d)[1])]_vars

\* C2 amended: the same for every data record that is the last one the
\* transaction carries for its key, in merge order (fragments in list order,
\* records in body order); an earlier record for the same key is overwritten.
C2_LastRecordStored ==
  [][\A d \in TxDatagrams :
       (Completes(TxKey(d)) /\ TxStep(d)) =>
         LET recs == Carried(FragmentsWith(d))
         IN \A i \in DOMAIN recs :
              (\A j \in DOMAIN recs :
                 j > i => <<recs[j].type, recs[j].source>> # <<recs[i].type, recs[i].source>>)
              => (WasLocal(recs[i]) \/ Holds(data_hash', recs[i], TxKey(d)[1]))]_vars

\* a completed transaction of two fragments from A whose records share a key
\* has left the later record in the store, first hand; and a completed
\* transaction from B has left A's record as SYNCED
C2_Witness ==
  /\ path \in {"push_finished", "txend_finished"}
  /\ Len(merge_log) >= 2
  /\ \E i, j \in DOMAIN merge_log :
       /\ i < j
       /\ merge_log[i].data = rAx
       /\ merge_log[j].data = rAy
       /\ merge_log[j].mac = "A"
  /\ <<1, "A">> \in DOMAIN data_hash
  /\ data_hash[<<1, "A">>].buf = "y"
  /\ data_hash[<<1, "A">>].data_source = SOURCE_FIRST_HAND

(***************************************************************************)
(* C3                                                                      *)
(***************************************************************************)
\* C3: in SLAVE mode no PUSH_DATA or STATUS_TXEND adds a key to the
\* transaction table, and one whose (peer, tx_id) is not in the table leaves
\* the transaction table and the dataset store as they were.
C3_SlaveNeverCreates ==
  [][\A d \in TxDatagrams :
       (opmode = "SLAVE" /\ TxStep(d)) =>
         /\ DOMAIN transaction_hash' \subseteq DOMAIN transaction_hash
         /\ TxKey(d) \notin DOMAIN transaction_hash =>
              /\ transaction_hash' = transaction_hash
              /\ data_hash' = data_hash]_vars

\* a slave that holds a transaction has dropped a PUSH_DATA for another one
C3_Witness ==
  /\ opmode = "SLAVE"
  /\ path = "push_no_transaction"
  /\ DOMAIN transaction_hash # {}

(***************************************************************************)
(* C4                                                                      *)
(***************************************************************************)
OneFragmentPerSeqno ==
  \A k \in DOMAIN transaction_hash :
    LET pl == transaction_hash[k].packet_list
    IN /\ transaction_hash[k].num_packet = Len(pl)
       /\ \A i, j \in DOMAIN pl : i # j => pl[i].seqno # pl[j].seqno

\* C4: every transaction holds at most one fragment per seqno (and counts
\* exactly the fragments it holds), and a PUSH_DATA whose (peer, tx_id,
\* seqno) matches a stored fragment changes neither the fragment list nor
\* the received-fragment count.
C4_DuplicateDiscarded ==
  /\ []OneFragmentPerSeqno
  /\ [][\A d \in TxPushes :
          LET k == TxKey(d)
          IN (/\ k \in DOMAIN transaction_hash
              /\ \E i \in DOMAIN transaction_hash[k].packet_list :
                   transaction_hash[k].packet_list[i].seqno = d.seqno
              /\ TxStep(d)) =>
               /\ k \in DOMAIN transaction_hash'
               /\ transaction_hash'[k].packet_list = transaction_hash[k].packet_list
               /\ transaction_hash'[k].num_packet = transaction_hash[k].num_packet
               /\ data_hash' = data_hash]_vars

\* a duplicate of a fragment with another body has just been discarded
C4_Witness ==
  /\ path = "push_duplicate"
  /\ <<"A", 1>> \in DOMAIN transaction_hash
  /\ transaction_hash[<<"A", 1>>].num_packet = 1
  /\ transaction_hash[<<"A", 1>>].packet_list[1].recs = <<rAe>>

(***************************************************************************)
(* C5                                                                      *)
(***************************************************************************)
\* C5: a STATUS_TXEND with seqno 0 for a (peer, tx_id) that is not in the
\* transaction table leaves the transaction table unchanged, in either mode.
C5_ZeroTxendUnknown ==
  [][\A d \in TxEnds :
       (/\ ntohs(d.seqno) = 0
        /\ TxKey(d) \notin DOMAIN transaction_hash
        /\ TxStep(d)) => transaction_hash' = transaction_hash]_vars

\* a master that holds another transaction has dropped such a terminator
C5_Witness ==
  /\ opmode = "MASTER"
  /\ path = "txend_zero_unknown"
  /\ DOMAIN transaction_hash # {}

(***************************************************************************)
(* C6                                                                      *)
(***************************************************************************)
\* the fragments transaction k holds (none when it is not in the table)
Have(k) ==
  IF k \in DOMAIN transaction_hash THEN transaction_hash[k].num_packet ELSE 0

\* Transaction k waits: the count in force, the one the most recent
\* STATUS_TXEND of k announced (recv.c:365 replaces the count of an earlier
\* one), is above zero and k holds fewer fragments.
Waiting(k) ==
  /\ k \in DOMAIN transaction_hash
  /\ transaction_hash[k].txend_packets > 0
  /\ transaction_hash[k].num_packet < transaction_hash[k].txend_packets

\* d is a PUSH_DATA the handler takes in as a new fragment of a live transaction
NewFragment(d) ==
  /\ d.type = ALFRED_PUSH_DATA
  /\ TxKey(d) \in DOMAIN transaction_hash
  /\ ntohs(d.length) >= SizeofPush - SizeofTlv
  /\ \A i \in DOMAIN transaction_hash[TxKey(d)].packet_list :
       transaction_hash[TxKey(d)].packet_list[i].seqno # d.seqno

\* the terminator that arrives early does not complete the transaction and
\* merges nothing; its count replaces the one in force
TerminatorWaits ==
  \A d \in TxEnds :
    LET k == TxKey(d)
        N == ntohs(d.seqno)
    IN (/\ N > 0
        /\ Have(k) < N
        /\ k \in DOMAIN transaction_hash \/ (opmode = "MASTER" /\ k[1] # NoMac)
        /\ TxStep(d)) =>
         /\ k \in DOMAIN transaction_hash'
         /\ transaction_hash'[k].txend_packets = N
         /\ transaction_hash'[k].num_packet = Have(k)
         /\ data_hash' = data_hash
         /\ merge_log' = <<>>

\* a new fragment of a waiting transaction completes it iff it brings the
\* fragments held up to the count in force
FragmentCompletes ==
  \A d \in TxPushes :
    LET k == TxKey(d)
    IN (NewFragment(d) /\ Waiting(k) /\ TxStep(d)) =>
         IF transaction_hash[k].num_packet + 1 = transaction_hash[k].txend_packets
         THEN /\ k \notin DOMAIN transaction_hash'
              /\ [i \in DOMAIN merge_log' |-> merge_log'[i].data]
                   = Carried(FragmentsWith(d))
         ELSE /\ k \in DOMAIN transaction_hash'
              /\ data_hash' = data_hash
              /\ merge_log' = <<>>

\* a packet of a waiting transaction that leaves it in the table merges
\* nothing
WaitingMergesNothing ==
  \A d \in TxDatagrams :
    (/\ Waiting(TxKey(d))
     /\ TxKey(d) \in DOMAIN transaction_hash'
     /\ TxStep(d)) =>
       /\ data_hash' = data_hash
       /\ merge_log' = <<>>

\* C6 as stated: an early terminator STATUS_TXEND{N} does not complete the
\* transaction and merges nothing, and the record stays in the table until
\* the step that takes in the N-th distinct fragment, which completes it.
C6_StaysUntilNthFragment ==
  [][/\ TerminatorWaits
     /\ FragmentCompletes
     /\ \A k \in DOMAIN transaction_hash :
          (Waiting(k) /\ k \notin DOMAIN transaction_hash') =>
            \E d \in TxPushes :
              /\ TxKey(d) = k
              /\ NewFragment(d)
              /\ transaction_hash[k].num_packet + 1 = transaction_hash[k].txend_packets
              /\ TxStep(d)]_vars

\* C6 amended: an early terminator STATUS_TXEND{N} does not complete the
\* transaction and merges nothing, and its N becomes the count in force,
\* replacing that of an earlier terminator.  While the transaction holds
\* fewer fragments than the count in force its packets merge nothing, and
\* its record leaves the table only in the step that makes the two equal: a
\* new fragment that brings the fragments held up to the count in force, or
\* another STATUS_TXEND that announces the number already held.  That step
\* completes it.
C6_StaysUntilCountMet ==
  [][/\ TerminatorWaits
     /\ FragmentCompletes
     /\ WaitingMergesNothing
     /\ \A k \in DOMAIN transaction_hash :
          (Waiting(k) /\ k \notin DOMAIN transaction_hash') =>
            \E d \in TxDatagrams :
              /\ TxKey(d) = k
              /\ \/ /\ NewFragment(d)
                    /\ transaction_hash[k].num_packet + 1
                         = transaction_hash[k].txend_packets
                 \/ /\ d.type = ALFRED_STATUS_TXEND
                    /\ ntohs(d.seqno) = transaction_hash[k].num_packet
              /\ TxStep(d)]_vars

\* PUSH seqno 1 arrived first, the terminator for two fragments second, and
\* PUSH seqno 0 has now completed the transaction
C6_Witness ==
  /\ path = "push_finished"
  /\ Len(merge_log) = 3
  /\ merge_log[1].data = rAy
  /\ merge_log[3].data = rAx

(***************************************************************************)
(* C7                                                                      *)
(***************************************************************************)
\* C7: a STATUS_TXEND with seqno 0 for a transaction that is in the table
\* and holds no fragment completes it: the head leaves the table, nothing is
\* merged, and the request-finished hook gets the head iff a client socket
\* is attached.
C7_EmptyResult ==
  [][\A d \in TxEnds :
       LET k == TxKey(d)
       IN (/\ ntohs(d.seqno) = 0
           /\ k \in DOMAIN transaction_hash
           /\ transaction_hash[k].packet_list = <<>>
           /\ TxStep(d)) =>
            /\ k \notin DOMAIN transaction_hash'
            /\ data_hash' = data_hash
            /\ IF transaction_hash[k].client_socket >= 0
               THEN /\ Len(finish_hook') = 1
                    /\ finish_hook'[1].server_addr = k[1]
                    /\ finish_hook'[1].id = k[2]
                    /\ finish_hook'[1].client_socket
                         = transaction_hash[k].client_socket
                    /\ finish_hook'[1].num_packet = 0
               ELSE finish_hook' = <<>>]_vars

\* the transaction of a local request was answered by a lone terminator
C7_Witness ==
  /\ path = "txend_finished"
  /\ merge_log = <<>>
  /\ Len(finish_hook) = 1
  /\ finish_hook[1].client_socket = 5
  /\ finish_hook[1].txend_packets = 0
  /\ finish_hook[1].num_packet = 0
  /\ transaction_hash = EmptyHash

(***************************************************************************)
(* C8                                                                      *)
(***************************************************************************)
\* d is a datagram the handlers process for its transaction: a new fragment
\* (for which a master creates the head if need be) or a terminator that is
\* not dropped
Processed(d) ==
  LET k == TxKey(d)
      known == k \in DOMAIN transaction_hash
  IN /\ k[1] # NoMac
     /\ known \/ opmode = "MASTER"
     /\ IF d.type = ALFRED_PUSH_DATA
        THEN /\ ntohs(d.length) >= SizeofPush - SizeofTlv
             /\ known => NewFragment(d)
        ELSE known \/ ntohs(d.seqno) # 0

\* expected_final_seqno and received_count once d is processed
ExpectedAfter(d) ==
  IF d.type = ALFRED_STATUS_TXEND THEN ntohs(d.seqno)
  ELSE IF TxKey(d) \in DOMAIN transaction_hash
  THEN transaction_hash[TxKey(d)].txend_packets ELSE 0

ReceivedAfter(d) ==
  Have(TxKey(d)) + (IF d.type = ALFRED_PUSH_DATA THEN 1 ELSE 0)

\* this step completed the transaction of d: its fragments were merged and
\* its head left the table
Completed(d) ==
  /\ TxKey(d) \notin DOMAIN transaction_hash'
  /\ [i \in DOMAIN merge_log' |-> merge_log'[i].data] = Carried(FragmentsWith(d))

\* C8 as stated: a transaction is completed exactly when, after a PUSH_DATA
\* or STATUS_TXEND for it is processed, expected_final_seqno # 0 and
\* received_count = expected_final_seqno.
C8_CompletedIffNonZeroCount ==
  [][\A d \in TxDatagrams :
       (Processed(d) /\ TxStep(d)) =>
         (Completed(d) <=>
            (ExpectedAfter(d) # 0 /\ ReceivedAfter(d) = ExpectedAfter(d)))]_vars

\* C8 amended: it is completed exactly when received_count =
\* expected_final_seqno after the datagram is processed; with
\* expected_final_seqno = 0 that is the terminator of an empty result.
C8_CompletedIffCountMet ==
  [][\A d \in TxDatagrams :
       (Processed(d) /\ TxStep(d)) =>
         /\ Completed(d) <=> ReceivedAfter(d) = ExpectedAfter(d)
         /\ ~Completed(d) =>
              /\ TxKey(d) \in DOMAIN transaction_hash'
              /\ data_hash' = data_hash
              /\ transaction_hash'[TxKey(d)].packet_list = FragmentsWith(d)]_vars

\* a terminator completed a transaction whose fragments had all arrived
\* before it, and the table is empty again
C8_Witness ==
  /\ path = "txend_finished"
  /\ Len(merge_log) >= 1
  /\ transaction_hash = EmptyHash

(***************************************************************************)
(* C9: replay after completion.  SpecReplay is the transaction traffic of  *)
(* SpecTx for tx_id 1 with the history of completed transactions kept.     *)
(***************************************************************************)
ReplayPushes == {d \in TxPushes : ntohs(d.tx_id) = 1}

ReplayDatagrams == {d \in TxDatagrams : ntohs(d.tx_id) = 1}

ReplayRecv == \E d \in ReplayDatagrams : RecvPacketTracked("if0", d, <<>>, 0)

ReplayLocalReq == LocalReqData(1, 1, 5)

ReplayLocalAdd == LocalAddData(1, 0, 2, "l")

NextReplay == ReplayRecv \/ ReplayLocalReq \/ ReplayLocalAdd

SpecReplay == InitTx /\ [][NextReplay]_vars

ReplayStep(d) == RecvPacketTracked("if0", d, <<>>, 0)

\* C9 as stated: a PUSH_DATA for a transaction that has completed (and was
\* not opened again since) leaves no transaction record for its key and
\* leaves the dataset store unchanged.
C9_ReplayIsNoOp ==
  [][\A d \in ReplayPushes :
       (TxKey(d) \in completed_tx /\ ReplayStep(d)) =>
         /\ TxKey(d) \notin DOMAIN transaction_hash'
         /\ data_hash' = data_hash]_vars

\* C9 amended: such a PUSH_DATA merges nothing and leaves the dataset store
\* unchanged; on a slave it leaves the transaction table unchanged, with no
\* record for its key, while a master opens a new transaction that holds the
\* replayed fragment.
C9_ReplayLeavesStore ==
  [][\A d \in ReplayPushes :
       LET k == TxKey(d)
       IN (k \in completed_tx /\ ReplayStep(d)) =>
            /\ data_hash' = data_hash
            /\ merge_log' = <<>>
            /\ finish_hook' = <<>>
            /\ opmode = "SLAVE" =>
                 /\ transaction_hash' = transaction_hash
                 /\ k \notin DOMAIN transaction_hash'
            /\ (opmode = "MASTER" /\ ntohs(d.length) >= SizeofPush - SizeofTlv) =>
                 /\ k \in DOMAIN transaction_hash'
                 /\ transaction_hash'[k].packet_list = <<StoredPush(d)>>
                 /\ transaction_hash'[k].txend_packets = 0]_vars

\* a slave whose request to A was answered and merged has dropped a replayed
\* fragment of that transaction
C9_Witness ==
  /\ opmode = "SLAVE"
  /\ path = "push_no_transaction"
  /\ <<"A", 1>> \in completed_tx
  /\ <<1, "A">> \in DOMAIN data_hash
  /\ transaction_hash = EmptyHash

(***************************************************************************)
(* Spec: the receive side as the event loop drives it, on both interfaces, *)
(* with the clock and the local clients                                    *)
(***************************************************************************)
SpecPushes ==
  {PushData("ipA", 1, 0, <<rAx, rM>>, 0),
   PushData("ipB", 1, 0, <<rM>>, 0)}

SpecEnds == {StatusTxend("ipA", 1, 1), StatusTxend("ipB", 1, 1)}

SpecAnnounces == {Announce(src) : src \in {"ipA", "ipU", "ipMe"}}

SpecRequests == {Request("ipA", 1, 7), Request("ipB", 2, 7)}

\* datagrams recv_alfred_packet drops before it looks at the type, and one
\* of a type it does not know
SpecMalformed ==
  {[Announce("ipA") EXCEPT !.size = 0],
   [Announce("ipA") EXCEPT !.size = 3],
   [StatusTxend("ipA", 1, 1) EXCEPT !.version = 1],
   [Announce("ipA") EXCEPT !.type = 9]}

SpecDatagrams ==
  SpecPushes \cup SpecEnds \cup SpecAnnounces \cup SpecRequests \cup SpecMalformed

\* a datagram is read; a REQUEST is answered by a walk over the store in any
\* order
Recv ==
  \E interface \in Interfaces, d \in SpecDatagrams :
    IF d.type = ALFRED_REQUEST
    THEN \E order \in Orders(data_hash) : RecvPacket(interface, d, order, 0)
    ELSE RecvPacket(interface, d, <<>>, 0)

LocalAdd == LocalAddData(1, 0, 2, "l")

LocalReq == LocalReqData(1, 1, 5)

PickServer == \E server \in KnownServers(interfaces) : UpdateServerInfo(server)

Next == Recv \/ Tick \/ LocalAdd \/ LocalReq \/ PickServer

Spec == Init /\ [][Next]_vars

(***************************************************************************)
(* C1                                                                      *)
(***************************************************************************)
\* some datagram of the alphabet was read on some interface in this step
Inbound ==
  \E interface \in Interfaces, d \in SpecDatagrams :
    \E order \in IF d.type = ALFRED_REQUEST THEN Orders(data_hash) ELSE {<<>>} :
      RecvPacket(interface, d, order, 0)

LocalKeys == {key \in DOMAIN data_hash : data_hash[key].data_source = SOURCE_LOCAL}

\* every LOCAL entry is after the step what it was before it, and every
\* merge the step made of a record with the key of a LOCAL entry was skipped
\* and raised no "changed" signal
LocalUntouched ==
  /\ \A key \in LocalKeys :
       /\ key \in DOMAIN data_hash'
       /\ data_hash'[key] = data_hash[key]
  /\ \A n \in DOMAIN merge_log' :
       <<merge_log'[n].data.type, merge_log'[n].data.source>> \in LocalKeys =>
         merge_log'[n].skipped /\ ~merge_log'[n].changed

\* C1: a step that reads an inbound packet (of any of the four types, from
\* any peer) leaves every LOCAL entry of the dataset store as it was, with
\* its payload, length, version, provenance and last_seen, and every merge
\* of a record with such a key is skipped and raises no "changed" signal.
\* By induction the same holds of any sequence of inbound packets.
C1_LocalProtected == [][LocalUntouched \/ ~Inbound]_vars

\* a completed transaction carried a record for the key of a LOCAL entry
\* that was stored at an earlier time with another payload
C1_Witness ==
  /\ path \in {"push_finished", "txend_finished"}
  /\ \E n \in DOMAIN merge_log : merge_log[n].data = rM /\ merge_log[n].skipped
  /\ <<1, "ME">> \in DOMAIN data_hash
  /\ data_hash[<<1, "ME">>].data_source = SOURCE_LOCAL
  /\ data_hash[<<1, "ME">>].buf = "l"
  /\ data_hash[<<1, "ME">>].last_seen < now

(***************************************************************************)
(* SpecPush: the push scheduler over stores drawn from a bounded set, with *)
(* datasets small, too large to share a datagram, and too large to send    *)
(***************************************************************************)
\* 2 bytes; 40000 bytes, two of which do not fit one datagram; 65510 bytes,
\* which with its header exceeds MAX_PAYLOAD - sizeof(push) by one
PushLengths == {2, 40000, 65510}

PushKeys == <<[key |-> <<1, "ME">>, data_source |-> SOURCE_LOCAL],
              [key |-> <<1, "A">>, data_source |-> SOURCE_FIRST_HAND],
              [key |-> <<2, "B">>, data_source |-> SOURCE_SYNCED]>>

\* the stores: each key absent (length -1) or present with one of the lengths
PushStores ==
  {[key \in {PushKeys[n].key : n \in {n \in DOMAIN PushKeys : len[n] >= 0}} |->
      LET n == CHOOSE n \in DOMAIN PushKeys : PushKeys[n].key = key
      IN [buf |-> "p", data_source |-> PushKeys[n].data_source, version |-> 0,
          length |-> len[n], last_seen |-> 0]] :
     len \in [DOMAIN PushKeys -> PushLengths \cup {-1}]}

ServerB == [hwaddr |-> "B", address |-> "ipB"]

InitPush ==
  /\ opmode \in {"MASTER", "SLAVE"}
  /\ ipv4mode = TRUE
  /\ now = 0
  /\ data_hash \in PushStores
  /\ transaction_hash = EmptyHash
  /\ interfaces =
       [i \in Interfaces |->
          [OpenInterface EXCEPT
             !.server_hash =
                IF i = "if0"
                THEN Put(EmptyHash, "A",
                         [hwaddr |-> "A", address |-> "ipA", tq |-> 0, last_seen |-> 0])
                ELSE Put(EmptyHash, "B",
                         [hwaddr |-> "B", address |-> "ipB", tq |-> 0, last_seen |-> 0])]]
  /\ best_server = IF opmode = "SLAVE" THEN ServerA ELSE NoServer
  /\ path = "init"
  /\ NoOutput

\* requests for a type the store may hold in several keys' worth, a type
\* with one key and a type with none
PushRequests == {Request("ipA", type, 7) : type \in {1, 2, 3}}

\* the sendto call that fails in an operation: none, the first, the second
FailAts == {0, 1, 2}

\* the walks over the server_hash of every interface
ServerOrders == [i \in Interfaces |-> Orders(interfaces[i].server_hash)]

PushRecv ==
  \E d \in PushRequests, order \in Orders(data_hash), failAt \in FailAts :
    RecvPacket("if0", d, order, failAt)

PushSync ==
  \E order \in Orders(data_hash), failAt \in FailAts :
    \E so0 \in ServerOrders["if0"], so1 \in ServerOrders["if1"] :
      SyncData(order, [i \in Interfaces |-> IF i = "if0" THEN so0 ELSE so1],
               <<htons(11), htons(12)>>, failAt)

PushLocal ==
  \E order \in Orders(data_hash), failAt \in FailAts :
    PushLocalData(order, <<htons(21), htons(22)>>, failAt)

PushReopen == \E interface \in Interfaces : NetsockReopen(interface)

NextPush == PushRecv \/ PushSync \/ PushLocal \/ PushReopen

SpecPush == InitPush /\ [][NextPush]_vars

(***************************************************************************)
(* C10                                                                     *)
(***************************************************************************)
\* the PUSH_DATA datagrams among bufs
Fragments(bufs) == SelectSeq(bufs, LAMBDA b : b.type = ALFRED_PUSH_DATA)

\* what push_data call c handed to send_alfred_packet: k fragments with
\* seqno 0 .. k-1 first, then the terminator with seqno k iff k > 0 or a type
\* filter was given, all with the tx_id of the call
WellSequenced(c) ==
  LET bufs == c.bufs
      k == Len(Fragments(bufs))
  IN /\ \A n \in 1..k :
          /\ bufs[n].type = ALFRED_PUSH_DATA
          /\ ntohs(bufs[n].seqno) = n - 1
          /\ bufs[n].tx_id = c.tx_id
          /\ bufs[n].recs # <<>>
     /\ Len(bufs) = k + (IF k > 0 \/ c.type_filter # NO_FILTER THEN 1 ELSE 0)
     /\ Len(bufs) > k =>
          /\ bufs[k + 1].type = ALFRED_STATUS_TXEND
          /\ bufs[k + 1].tx_id = c.tx_id
          /\ ntohs(bufs[k + 1].seqno) = k

RECURSIVE CallsOn(_, _)
\* the datagrams the calls of log made for interface, in order
CallsOn(log, interface) ==
  IF log = <<>> THEN <<>>
  ELSE (IF Head(log).interface = interface
        THEN [n \in DOMAIN Head(log).bufs |->
                [interface |-> interface, dest |-> Head(log).dest,
                 buf |-> Head(log).bufs[n]]]
        ELSE <<>>) \o CallsOn(Tail(log), interface)

\* C10: every push_data call emits its PUSH_DATA fragments with consecutive
\* seqno 0 .. k-1 and its tx_id, followed by a STATUS_TXEND with that tx_id
\* and seqno k if and only if k > 0 or a type filter was given; on an
\* interface whose socket is open after the operation, exactly these datagrams
\* left the host, in this order.
C10_PushSequence ==
  /\ \A n \in DOMAIN push_log : WellSequenced(push_log[n])
  /\ \A interface \in Interfaces :
       (push_log # <<>> /\ interfaces[interface].netsock >= 0) =>
         SelectSeq(sent, LAMBDA m : m.interface = interface)
           = CallsOn(push_log, interface)

\* a REQUEST for type 1 was answered with two fragments and the terminator
C10_Witness ==
  /\ path = "request_served"
  /\ Len(push_log) = 1
  /\ push_log[1].type_filter = 1
  /\ Len(push_log[1].bufs) = 3
  /\ ntohs(push_log[1].bufs[2].seqno) = 1
  /\ push_log[1].bufs[3].type = ALFRED_STATUS_TXEND
  /\ ntohs(push_log[1].bufs[3].seqno) = 2
  /\ Len(sent) = 3

(***************************************************************************)
(* SpecOut: the outbound operations over stores that hold every provenance *)
(* and datasets up to the largest that fits a datagram                     *)
(***************************************************************************)
\* 65509 bytes fill a PUSH_DATA datagram to MAX_PAYLOAD exactly; the other
\* lengths are those of PushLengths
OutKeys == <<[key |-> <<1, "ME">>, data_source |-> SOURCE_LOCAL,
              lengths |-> {2, 40000, 65510}],
             [key |-> <<1, "A">>, data_source |-> SOURCE_FIRST_HAND,
              lengths |-> {2, 65509}],
             [key |-> <<2, "B">>, data_source |-> SOURCE_SYNCED,
              lengths |-> {2}]>>

\* the stores: each key absent (length -1) or present with one of its lengths
OutStores ==
  {[key \in {OutKeys[n].key : n \in {n \in DOMAIN OutKeys : len[n] >= 0}} |->
      LET n == CHOOSE n \in DOMAIN OutKeys : OutKeys[n].key = key
      IN [buf |-> "p", data_source |-> OutKeys[n].data_source, version |-> 0,
          length |-> len[n], last_seen |-> 0]] :
     len \in {l \in [DOMAIN OutKeys -> {-1, 2, 40000, 65509, 65510}] :
                \A n \in DOMAIN OutKeys : l[n] \in OutKeys[n].lengths \cup {-1}}}

\* a request was left open by a local client, so that the transaction table
\* is not empty
InitOut ==
  /\ opmode \in {"MASTER", "SLAVE"}
  /\ ipv4mode = TRUE
  /\ now = 0
  /\ data_hash \in OutStores
  /\ transaction_hash = unix_sock_req_data(EmptyHash, ServerA, 1, 1, 5, 0)
  /\ interfaces =
       [i \in Interfaces |->
          [OpenInterface EXCEPT
             !.server_hash =
                IF i = "if0"
                THEN Put(EmptyHash, "A",
                         [hwaddr |-> "A", address |-> "ipA", tq |-> 0, last_seen |-> 0])
                ELSE Put(EmptyHash, "B",
                         [hwaddr |-> "B", address |-> "ipB", tq |-> 0, last_seen |-> 0])]]
  /\ best_server = IF opmode = "SLAVE" THEN ServerA ELSE NoServer
  /\ path = "init"
  /\ NoOutput

\* requests from a peer, and one from a sender whose hardware address
\* cannot be resolved
OutRequests ==
  {Request("ipA", type, 7) : type \in {1, 2, 3}} \cup {Request("ipU", 1, 7)}

OutRecv ==
  \E d \in OutRequests, order \in Orders(data_hash), failAt \in FailAts :
    RecvPacket("if0", d, order, failAt)

OutSync ==
  \E order \in Orders(data_hash), failAt \in FailAts :
    SyncData(order, [i \in Interfaces |->
                       IF i = "if0" THEN <<"A">> ELSE <<"B">>],
             <<htons(11), htons(12)>>, failAt)

OutLocal ==
  \E order \in Orders(data_hash), failAt \in FailAts :
    PushLocalData(order, <<htons(21), htons(22)>>, failAt)

OutAnnounce == \E failAt \in FailAts : AnnounceMaster(failAt)

OutReopen == \E interface \in Interfaces : NetsockReopen(interface)

NextOut == OutRecv \/ OutSync \/ OutLocal \/ OutAnnounce \/ OutReopen

SpecOut == InitOut /\ [][NextOut]_vars

(***************************************************************************)
(* C11                                                                     *)
(***************************************************************************)
\* every datagram handed to send_alfred_packet by the last operation
Emitted ==
  UNION {Range(push_log[n].bufs) : n \in DOMAIN push_log}
    \cup {sent[n].buf : n \in DOMAIN sent}

\* C11: every datagram announce_master and push_data emit has an on-wire
\* length of at most MAX_PAYLOAD; the on-wire length of a PUSH_DATA is that
\* of its header and the records it carries, and its header length field is
\* the on-wire length minus the framing header.
C11_MtuBound ==
  \A b \in Emitted :
    /\ b.size <= MAX_PAYLOAD
    /\ b.type = ALFRED_PUSH_DATA =>
         /\ b.size = SizeofPush + BodyLen(b.recs)
         /\ ntohs(b.length) = b.size - SizeofTlv

\* a PUSH_DATA of exactly MAX_PAYLOAD bytes has left the host
C11_Witness ==
  \E n \in DOMAIN sent :
    /\ sent[n].buf.type = ALFRED_PUSH_DATA
    /\ sent[n].buf.size = MAX_PAYLOAD
    /\ Len(sent[n].buf.recs) = 1

(***************************************************************************)
(* Closed sockets                                                          *)
(***************************************************************************)
Closed(i) == interfaces[i].netsock < 0

\* the event loop reads a datagram from the socket of interface i
OutRecvOn(i) ==
  \E d \in OutRequests, order \in Orders(data_hash), failAt \in FailAts :
    RecvPacket(i, d, order, failAt)

\* C17: the unicast socket of an interface is closed exactly when its
\* multicast socket is; an operation that starts while the sockets of an
\* interface are closed puts no datagram on that interface, and a datagram
\* read on it changes neither the store, the transaction table nor the
\* interfaces, and is not answered.
C17_ClosedTogether ==
  /\ [](\A i \in Interfaces :
          interfaces[i].netsock < 0 <=> interfaces[i].netsock_mcast < 0)
  /\ [][\A i \in Interfaces :
          Closed(i) =>
            /\ \A n \in DOMAIN sent' : sent'[n].interface # i
            /\ \/ /\ UNCHANGED <<data_hash, transaction_hash, interfaces>>
                  /\ sent' = <<>>
                  /\ merge_log' = <<>>
               \/ ~OutRecvOn(i)]_vars

\* a request was read on if0 while its sockets were closed and those of if1
\* were open
C17_Witness ==
  /\ path = "recv_closed"
  /\ interfaces["if0"].netsock < 0 /\ interfaces["if0"].netsock_mcast < 0
  /\ interfaces["if1"].netsock >= 0 /\ interfaces["if1"].netsock_mcast >= 0

(***************************************************************************)
(* What a push carries                                                     *)
(***************************************************************************)
\* the keys of the records in the fragments of push_data call c
CarriedKeys(c) ==
  {<<r.type, r.source>> :
     r \in UNION {Range(c.bufs[n].recs) :
                   n \in {n \in DOMAIN c.bufs : c.bufs[n].type = ALFRED_PUSH_DATA}}}

\* a dataset that fits a PUSH_DATA datagram on its own
Fits(dataset) == dataset.length + SizeofData <= MAX_PAYLOAD - SizeofPush

\* C18: every push_data call of a periodic sync carries exactly the LOCAL
\* and FIRST_HAND datasets of the store and no SYNCED one, every call of
\* push_local_data exactly the LOCAL ones, and the answer to a REQUEST
\* exactly the datasets of the requested type, whatever their provenance;
\* in each case among the datasets that fit a datagram.
C18_CarriedIffEligible ==
  [][/\ (path' = "sync_data" /\ OutSync) =>
          /\ push_log' # <<>>
          /\ \A n \in DOMAIN push_log' :
               /\ CarriedKeys(push_log'[n]) =
                    {k \in DOMAIN data_hash :
                       /\ data_hash[k].data_source \in {SOURCE_LOCAL, SOURCE_FIRST_HAND}
                       /\ Fits(data_hash[k])}
               /\ \A k \in CarriedKeys(push_log'[n]) :
                    data_hash[k].data_source # SOURCE_SYNCED
     /\ (path' = "push_local_data" /\ OutLocal) =>
          /\ push_log' # <<>>
          /\ \A n \in DOMAIN push_log' :
               CarriedKeys(push_log'[n]) =
                 {k \in DOMAIN data_hash :
                    data_hash[k].data_source = SOURCE_LOCAL /\ Fits(data_hash[k])}
     /\ \A d \in OutRequests :
          (/\ path' \in {"request_served", "recv_closed"}
           /\ \E order \in Orders(data_hash), failAt \in FailAts :
                RecvPacket("if0", d, order, failAt)) =>
            /\ ~Closed("if0") => Len(push_log') = 1
            /\ \A n \in DOMAIN push_log' :
                 CarriedKeys(push_log'[n]) =
                   {k \in DOMAIN data_hash :
                      k[1] = d.requested_type /\ Fits(data_hash[k])}]_vars

\* a sync over a store that holds a LOCAL, a FIRST_HAND and a SYNCED dataset
\* carried the first two and left the third
C18_Witness ==
  /\ path = "sync_data"
  /\ {data_hash[k].data_source : k \in DOMAIN data_hash} =
       {SOURCE_LOCAL, SOURCE_FIRST_HAND, SOURCE_SYNCED}
  /\ \E n \in DOMAIN push_log :
       /\ CarriedKeys(push_log[n]) = {<<1, "ME">>, <<1, "A">>}
       /\ <<2, "B">> \in DOMAIN data_hash

(***************************************************************************)
(* The outbound operations read the tables                                 *)
(***************************************************************************)
PeerTables == [i \in Interfaces |-> interfaces[i].server_hash]

\* C20: announce_master, sync_data, push_local_data and the answer to a
\* REQUEST leave the dataset store (so every stored length, version and
\* payload), the transaction table and the peer table of every interface as
\* they were.
C20_OutboundReadOnly ==
  [][\/ /\ UNCHANGED <<data_hash, transaction_hash>>
        /\ PeerTables' = PeerTables
     \/ ~(OutAnnounce \/ OutSync \/ OutLocal \/ OutRecv)]_vars

\* a sync put a dataset on the wire with its length in network byte order
\* while the store kept it in host byte order
C20_Witness ==
  /\ path = "sync_data"
  /\ transaction_hash # EmptyHash
  /\ \E n \in DOMAIN sent :
       /\ sent[n].buf.type = ALFRED_PUSH_DATA
       /\ \E m \in DOMAIN sent[n].buf.recs :
            LET r == sent[n].buf.recs[m]
            IN /\ <<r.type, r.source>> \in DOMAIN data_hash
               /\ data_hash[<<r.type, r.source>>].length = 2
               /\ r.length = htons(2)
               /\ r.length # 2

(***************************************************************************)
(* SpecDrop: datagrams of every type, well-formed, malformed and from      *)
(* senders that do not resolve, read on both interfaces                    *)
(***************************************************************************)
DropGood ==
  {PushData("ipA", 1, 0, <<rAx>>, 0), StatusTxend("ipA", 1, 1),
   Request("ipA", 1, 7), Announce("ipA")}

\* d from the own address, cut below the header, cut below header + length,
\* of another version, and of two types the switch does not know
Malformed(d) ==
  {[d EXCEPT !.src = "ipMe"],
   [d EXCEPT !.size = SizeofTlv - 1],
   [d EXCEPT !.size = @ - 1],
   [d EXCEPT !.version = ALFRED_VERSION + 1],
   [d EXCEPT !.type = 4],
   [d EXCEPT !.type = 9]}

DropMalformed == UNION {Malformed(d) : d \in DropGood}

DropUnresolvable == {[d EXCEPT !.src = "ipU"] : d \in DropGood}

DropDatagrams == DropGood \cup DropMalformed \cup DropUnresolvable

\* datagram d is read on interface i
DropStep(i, d) ==
  \E order \in IF d.type = ALFRED_REQUEST THEN Orders(data_hash) ELSE {<<>>} :
    RecvPacket(i, d, order, 0)

DropRecv == \E i \in Interfaces, d \in DropDatagrams : DropStep(i, d)

NextDrop == DropRecv \/ TxLocalReq \/ TxLocalAdd

SpecDrop == InitTransports /\ [][NextDrop]_vars

\* the step changed no table and put nothing on the wire
Quiet ==
  /\ UNCHANGED <<data_hash, transaction_hash, interfaces>>
  /\ sent' = <<>>
  /\ push_log' = <<>>
  /\ merge_log' = <<>>
  /\ finish_hook' = <<>>

\* C13: a datagram from one of the own addresses, shorter than the header
\* or than header + length, of another version or of an unknown type leaves
\* the dataset store, the transaction table and the interfaces with their
\* peer tables as they were, merges nothing and puts no datagram on the wire.
C13_DroppedBeforeDispatch ==
  [][Quiet \/ ~(\E i \in Interfaces, d \in DropMalformed : DropStep(i, d))]_vars

\* a truncated datagram was read while the store, the transaction table and
\* a peer table were not empty
C13_Witness ==
  /\ path = "recv_truncated"
  /\ data_hash # EmptyHash
  /\ transaction_hash # EmptyHash
  /\ \E i \in Interfaces : interfaces[i].server_hash # EmptyHash

\* C14 as stated: a datagram of any of the four types from a sender whose
\* hardware address does not resolve changes no table and causes no
\* outbound packet.
C14_UnresolvableDropped ==
  [][Quiet \/ ~(\E i \in Interfaces, d \in DropUnresolvable : DropStep(i, d))]_vars

\* C14: a PUSH_DATA, STATUS_TXEND or ANNOUNCE_MASTER from a sender whose
\* hardware address does not resolve changes no table and causes no
\* outbound packet, on either transport.  So does a REQUEST from such a
\* sender on the IPv6 transport, where the source is rejected before the
\* dispatch.  On the IPv4 transport the REQUEST changes no table either,
\* but it is answered: one push_data call to the sender's address, ended by
\* a terminator that goes on the wire.
C14_UnresolvableNotRecorded ==
  [][\A i \in Interfaces, d \in DropUnresolvable :
       \/ IF d.type = ALFRED_REQUEST /\ ipv4mode
          THEN /\ UNCHANGED <<data_hash, transaction_hash, interfaces>>
               /\ merge_log' = <<>>
               /\ Len(push_log') = 1
               /\ push_log'[1].dest = "ipU"
               /\ sent' # <<>>
               /\ sent'[Len(sent')].buf.type = ALFRED_STATUS_TXEND
               /\ sent'[Len(sent')].dest = "ipU"
          ELSE Quiet
       \/ ~DropStep(i, d)]_vars

\* on the IPv4 transport a request from a sender that does not resolve was
\* answered with a dataset of the store
C14_Witness ==
  /\ ipv4mode
  /\ path = "request_served"
  /\ Len(sent) = 2
  /\ sent[1].dest = "ipU"
  /\ sent[1].buf.type = ALFRED_PUSH_DATA

(***************************************************************************)
(* SpecAnnounce: announcements read on both interfaces as time passes      *)
(***************************************************************************)
AnnounceSenders == {"ipA", "ipB", "ipU", "ipMe"}

\* the announcement of sender src is read on interface i
AnnounceStep(i, src) == RecvPacket(i, Announce(src), <<>>, 0)

AnnounceRecv == \E i \in Interfaces, src \in AnnounceSenders : AnnounceStep(i, src)

\* the same while malloc(sizeof(*server)) or hash_add fails
AnnounceFailure == [site |-> "server", record |-> 0]

AnnounceRecvNoMem ==
  \E i \in Interfaces, src \in AnnounceSenders :
    RecvPacketNoMem(i, Announce(src), <<>>, 0, AnnounceFailure)

NextAnnounce == AnnounceRecv \/ AnnounceRecvNoMem \/ Tick \/ PickServer

SpecAnnounce == InitTransports /\ [][NextAnnounce]_vars

\* C19: after an ANNOUNCE_MASTER from a peer whose hardware address H
\* resolves is read on interface i, the peer table of i holds a record under
\* H with last_seen the current instant; a first announcement adds that one
\* record, with the sender's address, and a later one changes last_seen of
\* the record that was there and adds none; the other records of the table
\* and the peer tables of the other interfaces are as before.
C19_AnnounceRecorded ==
  [][\A i \in Interfaces, src \in {"ipA", "ipB"} :
       LET H == to_mac(i, src)
           before == interfaces[i].server_hash
           after == interfaces'[i].server_hash
       IN \/ /\ DOMAIN after = DOMAIN before \cup {H}
             /\ after[H].hwaddr = H
             /\ after[H].last_seen = now
             /\ IF H \in DOMAIN before
                THEN after[H] = [before[H] EXCEPT !.last_seen = now]
                ELSE after[H].address = src
             /\ \A m \in DOMAIN before \ {H} : after[m] = before[m]
             /\ \A j \in Interfaces \ {i} : interfaces'[j] = interfaces[j]
          \/ ~AnnounceStep(i, src)]_vars

\* a second announcement of a peer refreshed its record on one interface
\* while the table held another peer and the other interface kept an older
\* record
C19_Witness ==
  /\ path = "announce_update"
  /\ now = 1
  /\ \E i \in Interfaces, m \in {"A", "B"} :
       /\ DOMAIN interfaces[i].server_hash = {"A", "B"}
       /\ interfaces[i].server_hash[m].last_seen = 1
       /\ \E j \in Interfaces \ {i} :
            /\ m \in DOMAIN interfaces[j].server_hash
            /\ interfaces[j].server_hash[m].last_seen = 0

(***************************************************************************)
(* C15                                                                     *)
(***************************************************************************)
\* what the store holds under key when the n-th merge of this step starts:
\* what the latest earlier merge of the step that was not skipped has put
\* there, else what the store held before the step
StoredBefore(n, key) ==
  LET earlier == {m \in 1..(n - 1) :
                    /\ <<merge_log'[m].data.type, merge_log'[m].data.source>> = key
                    /\ ~merge_log'[m].skipped}
      last == CHOOSE m \in earlier : \A k \in earlier : k <= m
  IN IF earlier # {}
     THEN [present |-> TRUE, length |-> ntohs(merge_log'[last].data.length),
           buf |-> merge_log'[last].data.data]
     ELSE IF key \in DOMAIN data_hash
     THEN [present |-> TRUE, length |-> data_hash[key].length,
           buf |-> data_hash[key].buf]
     ELSE [present |-> FALSE, length |-> 0, buf |-> NULL]

\* C15: a merged record raises the "changed" signal exactly when it is not
\* skipped because the stored entry is LOCAL and the entry is new, or its
\* stored length differs from the record's, or its stored bytes differ from
\* the record's; a record with the payload the non-LOCAL entry already
\* holds raises none.
C15_ChangedSignal ==
  [][\A n \in DOMAIN merge_log' :
       LET e == merge_log'[n]
           key == <<e.data.type, e.data.source>>
           local == key \in DOMAIN data_hash
                      /\ data_hash[key].data_source = SOURCE_LOCAL
           stored == StoredBefore(n, key)
       IN /\ e.skipped <=> local
          /\ e.changed <=>
               /\ ~local
               /\ \/ ~stored.present
                  \/ stored.length # ntohs(e.data.length)
                  \/ stored.buf # e.data.data]_vars

\* one completion merged a record with the payload the store already held,
\* without a signal, and a record of the same length with other bytes, with
\* a signal
C15_Witness ==
  \E n, m \in DOMAIN merge_log :
    /\ n < m
    /\ ~merge_log[n].skipped /\ ~merge_log[n].changed
    /\ ~merge_log[m].skipped /\ merge_log[m].changed
    /\ merge_log[m].data.length = merge_log[n].data.length
    /\ <<merge_log[m].data.type, merge_log[m].data.source>> =
         <<merge_log[n].data.type, merge_log[n].data.source>>

(***************************************************************************)
(* C16                                                                     *)
(***************************************************************************)
\* the records a step merged, in the order it merged them
Merged(log) == [n \in DOMAIN log |-> log[n].data]

\* C16: a fragment that is taken in goes to the tail of the list of its
\* transaction, and on completion the records are merged fragment by
\* fragment in list order, which is the order of arrival whatever the
\* sequence numbers; for every key the store then holds the record merged
\* last, unless the entry was LOCAL.
C16_ArrivalOrder ==
  [][\A d \in TxDatagrams :
       \/ path' \notin {"push_stored", "push_finished", "txend_finished"}
       \/ ~TxStep(d)
       \/ /\ path' = "push_stored" =>
               transaction_hash'[TxKey(d)].packet_list = FragmentsWith(d)
          /\ path' # "push_stored" =>
               LET recs == Carried(FragmentsWith(d))
               IN /\ Completes(TxKey(d))
                  /\ Merged(merge_log') = recs
                  /\ \A i \in DOMAIN recs :
                       (\A j \in DOMAIN recs :
                          j > i => <<recs[j].type, recs[j].source>> #
                                     <<recs[i].type, recs[i].source>>)
                       => (WasLocal(recs[i])
                             \/ data_hash'[<<recs[i].type, recs[i].source>>].buf =
                                  recs[i].data)]_vars

\* a transaction whose fragment 1 arrived before its fragment 0 completed:
\* the record of fragment 1 was merged first and the store holds the record
\* of fragment 0
C16_Witness ==
  /\ path \in {"push_finished", "txend_finished"}
  /\ Len(merge_log) = 3
  /\ merge_log[1].data = rAy
  /\ merge_log[3].data = rAx
  /\ data_hash[<<1, "A">>].buf = rAx.data

(***************************************************************************)
(* SpecAlloc: the fragments and terminators of one transaction of A, read  *)
(* while at most one allocation of each handler fails                      *)
(***************************************************************************)
AllocDatagrams ==
  {PushData("ipA", 1, 0, <<rAx>>, 0),
   PushData("ipA", 1, 1, <<rAw, rBw>>, 0),
   PushData("ipB", 1, 0, <<rBw>>, 0),
   StatusTxend("ipA", 1, 1), StatusTxend("ipA", 1, 2), StatusTxend("ipB", 1, 1)}

\* requests that walk the store the failed merges left
AllocRequests == {Request("ipA", 1, 1), Request("ipA", 2, 1)}

\* the merges of one completion, by position
AllocRecords == {1, 2}

AllocFailures ==
  {[site |-> site, record |-> 0] : site \in {"head", "packet", "push"}}
  \cup {[site |-> site, record |-> n] : site \in {"dataset", "buf"}, n \in AllocRecords}

\* a PUSH_DATA or STATUS_TXEND walks no store and sends nothing
AllocStep(d, alloc) == RecvPacketNoMem("if0", d, <<>>, 0, alloc)

AllocRecv == \E d \in AllocDatagrams : RecvPacket("if0", d, <<>>, 0)

AllocRecvNoMem == \E d \in AllocDatagrams, alloc \in AllocFailures : AllocStep(d, alloc)

AllocRequest ==
  \E d \in AllocRequests, order \in Orders(data_hash) : RecvPacket("if0", d, order, 0)

NextAlloc == AllocRecv \/ AllocRecvNoMem \/ AllocRequest \/ TxLocalReq

SpecAlloc == InitTx /\ [][NextAlloc]_vars

\* the store holds no entry without payload: no new key whose buffer was
\* never allocated and no entry whose old buffer was freed and not replaced
NoHalfDataset(dh) == \A key \in DOMAIN dh : dh[key].buf # NULL

\* the table holds no record under the key of PUSH_DATA d that was created
\* by d and does not hold the fragment of d
NoOrphanHead(d) ==
  \/ d.type # ALFRED_PUSH_DATA
  \/ TxKey(d) \in DOMAIN transaction_hash
  \/ TxKey(d) \notin DOMAIN transaction_hash'
  \/ transaction_hash'[TxKey(d)].packet_list # <<>>

\* C12: a PUSH_DATA or STATUS_TXEND read while an allocation of its handler
\* or of the merge fails leaves no transaction record that the packet
\* created without its fragment, and leaves every entry of the dataset
\* store with a payload.
C12_AllocationRolledBack ==
  [][\A d \in AllocDatagrams :
       \/ NoOrphanHead(d) /\ NoHalfDataset(data_hash')
       \/ ~(\E alloc \in AllocFailures : AllocStep(d, alloc))]_vars

====
